---- MODULE Spec2Model ----
(***************************************************************************)
(* Verification model of the terrain generator (terrain/*.py).             *)
(*                                                                         *)
(* Rasters are H x W arrays in row-major order; a cell is its flat index   *)
(* y * W + x.  Elevations are integers in units of 1e-4 m, so the          *)
(* tolerance 1e-4 is 1 and the river drop 0.01 m is 100.                   *)
(***************************************************************************)
EXTENDS Integers, Sequences, FiniteSets, TLC

VARIABLES
    pc,         \* position of the modelled call
    shape,      \* <<h, w>>, the shape of the rasters of this run
    tie_rule,   \* how this build's argsort orders equal keys
    inp,        \* the arguments of the modelled call, by parameter name
    out         \* what the call returned, by field name

vars == <<pc, shape, tie_rule, inp, out>>

----------------------------------------------------------------------------
(* Grid geometry *)

Max(a, b) == IF a >= b THEN a ELSE b
Min(a, b) == IF a <= b THEN a ELSE b

\* np.sum over the cells S of a raster
RECURSIVE SumOf(_, _)
SumOf(f, S) ==
    IF S = {} THEN 0
    ELSE LET c == CHOOSE x \in S : TRUE IN f[c] + SumOf(f, S \ {c})

\* h, w = height.shape
GridH == shape[1]
GridW == shape[2]
Size == GridH * GridW
Cells == 0 .. (Size - 1)
Row(c) == c \div GridW
Col(c) == c % GridW
FlatIndex(y, x) == y * GridW + x
InGrid(y, x) == y >= 0 /\ y < GridH /\ x >= 0 /\ x < GridW

\* np.inf as used for the fill of shifted rasters: above every elevation.
Inf == 1000000

\* _DIRECTIONS_8; the code's dir_idx is the position here minus one.
DIRECTIONS_8 ==
    << <<-1, 0>>, <<1, 0>>, <<0, 1>>, <<0, -1>>,
       <<-1, 1>>, <<-1, -1>>, <<1, 1>>, <<1, -1>> >>

DirIndices == 0 .. 7
DirDy(idx) == DIRECTIONS_8[idx + 1][1]
DirDx(idx) == DIRECTIONS_8[idx + 1][2]

\* The slices of hydrology._shift_float and _shift_index_grid on an h x w
\* raster:
\* out[y_dst0:y_dst1, x_dst0:x_dst1] = field[y_src0:y_src1, x_src0:x_src1].
\* ShiftSource gives, for each cell of out, the cell of field it is copied
\* from, or -1 where out keeps the fill value.
ShiftSource(h, w, dy, dx) ==
    LET y_src0 == Max(0, -dy)
        x_src0 == Max(0, -dx)
        y_dst0 == Max(0, dy)
        y_dst1 == h - Max(0, -dy)
        x_dst0 == Max(0, dx)
        x_dst1 == w - Max(0, -dx)
    IN  [c \in 0 .. (h * w - 1) |->
            IF /\ (c \div w) >= y_dst0 /\ (c \div w) < y_dst1
               /\ (c % w) >= x_dst0 /\ (c % w) < x_dst1
            THEN ((c \div w) - y_dst0 + y_src0) * w + ((c % w) - x_dst0 + x_src0)
            ELSE -1]

\* The flat indices of a raster of shape s
CellsOf(s) == 0 .. (s[1] * s[2] - 1)

\* The raster shapes of the runs that are checked.
FlowShape == <<2, 3>>
RiverShape == <<1, 3>>
ValidateShape == <<3, 4>>
GeomorphShape == <<1, 3>>
ClampShape == <<1, 3>>
MaskShape == <<4, 9>>
CaptureShape == <<1, 14>>
SupportShape == <<1, 4>>
FloodShape == <<3, 4>>
PlateShape == <<3, 3>>
Shapes == {FlowShape, RiverShape, ValidateShape, GeomorphShape, ClampShape,
           MaskShape, CaptureShape, SupportShape, FloodShape, PlateShape}

\* ShiftSource for each shape and each of the eight directions, by dir_idx.
ShiftSourceOfDir ==
    [s \in Shapes |->
        [idx \in DirIndices |-> ShiftSource(s[1], s[2], DirDy(idx), DirDx(idx))]]

\* hydrology._shift_float(field, dy, dx, fill) for direction dir_idx, at
\* cell c of the result.
_shift_float(field, idx, fill, c) ==
    IF ShiftSourceOfDir[shape][idx][c] >= 0
    THEN field[ShiftSourceOfDir[shape][idx][c]]
    ELSE fill

\* hydrology._shift_index_grid(h, w, dy, dx) for direction dir_idx, at cell
\* c of the result: the same slices applied to arange(h * w), -1 outside.
_shift_index_grid(idx, c) == ShiftSourceOfDir[shape][idx][c]

----------------------------------------------------------------------------
(* argsort *)

TieRules == {"low_index_first", "high_index_first"}

\* The element of a set of one element.  Value({e(x) : x \in {d}}) is e
\* with x standing for the value of d, computed once.
Value(S) == CHOOSE v \in S : TRUE

\* Whether cell a is placed before cell b by an ascending argsort of keys.
\* Equal keys are placed as the build's sort places them.
SortsBefore(keys, a, b, rule) ==
    \/ keys[a] < keys[b]
    \/ /\ keys[a] = keys[b]
       /\ IF rule = "low_index_first" THEN a < b ELSE a > b

RECURSIVE ArgsortFrom(_, _, _)
ArgsortFrom(keys, rest, rule) ==
    IF rest = {} THEN << >>
    ELSE Value({<<first>> \o Value({ArgsortFrom(keys, others, rule) :
                                       others \in {rest \ {first}}}) :
                first \in {CHOOSE a \in rest :
                              \A b \in rest \ {a} : SortsBefore(keys, a, b, rule)}})

\* np.argsort(keys): the cells in ascending key order.
Argsort(keys, rule) == ArgsortFrom(keys, Cells, rule)

\* order[::-1]
Reversed(s) == [i \in 1 .. Len(s) |-> s[Len(s) + 1 - i]]

----------------------------------------------------------------------------
(* compute_flow_d8 *)

\* better = drop > best_drop
BetterOrEqual(drop, best_drop) == drop >= best_drop
Better(drop, best_drop) == drop > best_drop

\* order = np.argsort(elev_flat)[::-1], the order of the accumulation loop
AccumOrderAscending(h, rule) == Argsort(h, rule)
AccumOrder(h, rule) == Reversed(Argsort(h, rule))

\* The direction loop of compute_flow_d8 for one cell: after directions
\* 0 .. idx-1 the cell holds best (best_drop, flow_dir, dest_flat).
RECURSIVE D8Scan(_, _, _, _)
D8Scan(h, c, idx, best) ==
    IF idx > 7 THEN best
    ELSE LET nh     == _shift_float(h, idx, Inf, c)
             drop   == h[c] - nh
             better == Better(drop, best.best_drop)
             next   == IF better
                       THEN [best_drop |-> drop, flow_dir |-> idx,
                             dest_flat |-> _shift_index_grid(idx, c)]
                       ELSE best
         IN  Value({D8Scan(h, c, idx + 1, n) : n \in {next}})

\* flow_dir and dest_flat of compute_flow_d8 after the ocean and no_down
\* resets.
D8Cell(h, ocean_mask, c) ==
    LET scanned == D8Scan(h, c, 0,
                       [best_drop |-> 0, flow_dir |-> -1, dest_flat |-> -1])
        no_down == scanned.best_drop <= 0
    IN  IF ocean_mask[c] \/ no_down
        THEN [scanned EXCEPT !.flow_dir = -1, !.dest_flat = -1]
        ELSE scanned

\* The accumulation loop: for src in order: accum[dst] += accum[src].
RECURSIVE AccumLoop(_, _, _, _)
AccumLoop(order, k, dest1d, accum) ==
    IF k > Len(order) THEN accum
    ELSE LET src == order[k]
             dst == dest1d[src]
         IN  Value({AccumLoop(order, k + 1, dest1d, a) :
                       a \in {IF dst >= 0
                              THEN [accum EXCEPT ![dst] = accum[dst] + accum[src]]
                              ELSE accum}})

compute_flow_d8(h, ocean_mask, rule) ==
    Value({[flow_dir   |-> [c \in Cells |-> d8[c].flow_dir],
            dest_flat  |-> [c \in Cells |-> d8[c].dest_flat],
            best_drop  |-> [c \in Cells |-> d8[c].best_drop],
            flow_accum |-> Value({AccumLoop(order, 1, dest1d, [c \in Cells |-> 1]) :
                                     dest1d \in {[c \in Cells |-> d8[c].dest_flat]}})] :
           d8 \in {[c \in Cells |-> D8Cell(h, ocean_mask, c)]},
           order \in {AccumOrder(h, rule)}})

\* _flow_dest_from_dir: the destination flat index decoded from flow_dir.
_flow_dest_from_dir(fd) ==
    [c \in Cells |->
        IF fd[c] \in DirIndices
        THEN _shift_index_grid(fd[c], c)
        ELSE -1]

----------------------------------------------------------------------------
(* _analyze_drainage_state *)

\* order = np.argsort(elev_flat), the order of the labelling loop
LabelOrderDescending(h, rule) == Reversed(Argsort(h, rule))
LabelOrder(h, rule) == Argsort(h, rule)

\* The labelling loop in ascending elevation order.
RECURSIVE LabelLoop(_, _, _, _, _)
LabelLoop(order, k, land, dest, st) ==
    IF k > Len(order) THEN st
    ELSE LET idx == order[k]
             dst == dest[idx]
             next ==
               IF ~land[idx] THEN st
               ELSE IF dst < 0
               THEN [sink   |-> [st.sink EXCEPT ![idx] = idx],
                     outlet |-> [st.outlet EXCEPT ![idx] = -1]]
               ELSE IF ~land[dst]
               THEN [sink   |-> [st.sink EXCEPT ![idx] = -1],
                     outlet |-> [st.outlet EXCEPT ![idx] = dst]]
               ELSE IF st.outlet[dst] >= 0
               THEN [sink   |-> [st.sink EXCEPT ![idx] = -1],
                     outlet |-> [st.outlet EXCEPT ![idx] = st.outlet[dst]]]
               ELSE [sink   |-> [st.sink EXCEPT ![idx] =
                                    IF st.sink[dst] >= 0 THEN st.sink[dst]
                                    ELSE dst],
                     outlet |-> [st.outlet EXCEPT ![idx] = -1]]
         IN  Value({LabelLoop(order, k + 1, land, dest, n) : n \in {next}})

_analyze_drainage_state(h, land, rule) ==
    Value({Value({[flow_dir        |-> d8.flow_dir,
                   flow_accum      |-> [c \in Cells |->
                                          IF ~land[c] THEN 0 ELSE d8.flow_accum[c]],
                   sink_id_flat    |-> labels.sink,
                   outlet_raw_flat |-> labels.outlet] :
                  labels \in {Value({LabelLoop(order, 1, land, dest,
                                         [sink   |-> [c \in Cells |-> -1],
                                          outlet |-> [c \in Cells |-> -1]]) :
                                     order \in {LabelOrder(h, rule)},
                                     dest \in {_flow_dest_from_dir(d8.flow_dir)}})}}) :
           d8 \in {compute_flow_d8(h, [c \in Cells |-> ~land[c]], rule)}})

----------------------------------------------------------------------------
(* Routing of one raster: the inputs are drawn, then either function is    *)
(* applied to them.                                                        *)

\* The elevation range of the routed rasters.
MaxElev == 2

InitFlow ==
    /\ pc = "input"
    /\ shape = FlowShape
    /\ tie_rule \in TieRules
    /\ inp \in [height    : [CellsOf(FlowShape) -> 0 .. MaxElev],
                land_mask : [CellsOf(FlowShape) -> BOOLEAN]]
    /\ out = [call |-> "none"]

CallComputeFlowD8 ==
    /\ pc = "input"
    /\ \E r \in {compute_flow_d8(inp.height,
                                  [c \in Cells |-> ~inp.land_mask[c]],
                                  tie_rule)} :
           out' = [call |-> "compute_flow_d8",
                   flow_dir |-> r.flow_dir, flow_accum |-> r.flow_accum]
    /\ pc' = "d8"
    /\ UNCHANGED <<shape, tie_rule, inp>>

CallAnalyzeDrainageState ==
    /\ pc = "input"
    /\ out' = [call |-> "_analyze_drainage_state"] @@
              _analyze_drainage_state(inp.height, inp.land_mask, tie_rule)
    /\ pc' = "drainage"
    /\ UNCHANGED <<shape, tie_rule, inp>>

NextFlow == CallComputeFlowD8 \/ CallAnalyzeDrainageState

SpecFlow == InitFlow /\ [][NextFlow]_vars

----------------------------------------------------------------------------
(* Properties of the routing fields *)

Abs(a) == IF a >= 0 THEN a ELSE -a

\* The in-grid 8-neighbours of a cell, from the geometry alone.
Neighbours(c) ==
    {n \in Cells : n # c /\ Abs(Row(n) - Row(c)) <= 1
                         /\ Abs(Col(n) - Col(c)) <= 1}

LowerNeighbours(c) == {n \in Neighbours(c) : inp.height[n] < inp.height[c]}

\* The destination the routing code gives a cell (-1 for none).
Dest(c) == _flow_dest_from_dir(out.flow_dir)[c]

Routed == pc \in {"d8", "drainage"}

\* The cells on the flow path that starts at c, followed for at most n steps.
RECURSIVE FlowPath(_, _)
FlowPath(c, n) ==
    IF n = 0 \/ Dest(c) < 0 THEN <<c>>
    ELSE <<c>> \o FlowPath(Dest(c), n - 1)

Last(s) == s[Len(s)]
NoRepeat(s) == \A i, j \in 1 .. Len(s) : i # j => s[i] # s[j]

\* C3: following flow_dir from any land cell visits no cell twice and ends
\* at an ocean cell or at a land cell with flow_dir = -1; exactly one of
\* outlet_raw_flat >= 0 and sink_id_flat >= 0 holds for the start cell and
\* it names that terminal cell.
C3_PathsTerminate ==
    pc = "drainage" =>
        \A c \in Cells : inp.land_mask[c] =>
            LET path == FlowPath(c, Size)
                t    == Last(path)
            IN  /\ NoRepeat(path)
                /\ Dest(t) < 0
                /\ (~inp.land_mask[t]) \/ out.flow_dir[t] = -1
                /\ (out.outlet_raw_flat[c] >= 0) # (out.sink_id_flat[c] >= 0)
                /\ ~inp.land_mask[t] => out.outlet_raw_flat[c] = t
                /\ inp.land_mask[t] => out.sink_id_flat[c] = t

\* A land cell two steps away from its sink, and one two steps from the ocean.
C3_Witness ==
    /\ pc = "drainage"
    /\ \E c \in Cells : /\ inp.land_mask[c] /\ Len(FlowPath(c, Size)) >= 3
                         /\ out.sink_id_flat[c] = Last(FlowPath(c, Size))
    /\ \E c \in Cells : /\ inp.land_mask[c] /\ Len(FlowPath(c, Size)) >= 2
                         /\ out.outlet_raw_flat[c] = Last(FlowPath(c, Size))

\* The neighbour direction idx points at, as the routing code decodes it.
DirTarget(c, idx) == _shift_index_grid(idx, c)

\* C4: flow_dir is -1 exactly on ocean cells and on cells without a strictly
\* lower in-grid 8-neighbour; any other cell gets an index 0..7 whose
\* destination is an in-grid neighbour with the largest drop, the first such
\* direction in iteration order, hence strictly lower than the cell.
C4_SteepestDescent ==
    Routed =>
        \A c \in Cells :
            /\ out.flow_dir[c] \in {-1} \cup DirIndices
            /\ (out.flow_dir[c] = -1) <=> (~inp.land_mask[c] \/ LowerNeighbours(c) = {})
            /\ out.flow_dir[c] >= 0 =>
                  /\ Dest(c) \in Neighbours(c)
                  /\ inp.height[Dest(c)] < inp.height[c]
                  /\ \A n \in Neighbours(c) : inp.height[Dest(c)] <= inp.height[n]
                  /\ \A idx \in DirIndices :
                        (idx < out.flow_dir[c] /\ DirTarget(c, idx) >= 0)
                            => inp.height[DirTarget(c, idx)] > inp.height[Dest(c)]

\* A routed land cell with two equally low lowest neighbours.
C4_Witness ==
    /\ Routed
    /\ \E c \in Cells :
          /\ out.flow_dir[c] >= 0
          /\ \E n \in Neighbours(c) \ {Dest(c)} : inp.height[n] = inp.height[Dest(c)]

\* C5 (as claimed): the cell that receives the flow of a cell (y, x) with
\* flow_dir = d >= 0 is (y + dy, x + dx), (dy, dx) being entry d of the
\* canonical D8 order.
C5_CanonicalOffset ==
    Routed =>
        \A c \in Cells : out.flow_dir[c] >= 0 =>
            /\ InGrid(Row(c) + DirDy(out.flow_dir[c]), Col(c) + DirDx(out.flow_dir[c]))
            /\ Dest(c) = FlatIndex(Row(c) + DirDy(out.flow_dir[c]),
                                   Col(c) + DirDx(out.flow_dir[c]))

Upstream(c) == {u \in Cells : inp.land_mask[u] /\ Dest(u) = c}

\* The land cells whose flow path passes through c, c included.
Through(c) == {u \in Cells : inp.land_mask[u] /\
                 \E i \in 1 .. Len(FlowPath(u, Size)) : FlowPath(u, Size)[i] = c}

\* C6: after _analyze_drainage_state the accumulation of a land cell is 1
\* plus the accumulation of the land cells draining into it, which is the
\* number of land cells whose path passes through it; it is 0 on the ocean.
C6_Accumulation ==
    pc = "drainage" =>
        \A c \in Cells :
            IF inp.land_mask[c]
            THEN /\ out.flow_accum[c] = 1 + SumOf(out.flow_accum, Upstream(c))
                 /\ out.flow_accum[c] = Cardinality(Through(c))
                 /\ out.flow_accum[c] >= 1
            ELSE out.flow_accum[c] = 0

\* A land cell that collects a chain of two cells.
C6_Witness ==
    /\ pc = "drainage"
    /\ \E c \in Cells :
          /\ inp.land_mask[c] /\ out.flow_accum[c] >= 3
          /\ \E u \in Upstream(c) : Upstream(u) # {}

----------------------------------------------------------------------------
(* enforce_downhill_river_profile and assert_downhill_river_routing *)

\* 1e-4 and min_drop = 0.01, in units of 1e-4 m
Tolerance == 1
MinDrop == 100

\* invalid = region & ((h2 - downstream) < -1e-4), for one cell of region
InvalidLoose(h_cell, downstream) == (h_cell - downstream) < -MinDrop
Invalid(h_cell, downstream) == (h_cell - downstream) < -Tolerance

\* The loop "for src in order" of enforce_downhill_river_profile;
\* st = [h |-> h_flat, mask |-> mask_flat].
RECURSIVE EnforceLoop(_, _, _, _, _)
EnforceLoop(order, k, dest, lake, st) ==
    IF k > Len(order) THEN st
    ELSE LET src == order[k]
             dst == dest[src]
             target_downstream == st.h[src] - MinDrop
             next ==
               IF st.mask[src] <= 0 THEN st
               ELSE IF dst < 0
               THEN [st EXCEPT !.mask[src] = 0]
               ELSE IF lake[dst]
               THEN IF st.h[src] < st.h[dst] - Tolerance
                    THEN [st EXCEPT !.mask[src] = 0]
                    ELSE st
               ELSE IF st.h[dst] >= target_downstream
               THEN [st EXCEPT !.h[dst] = target_downstream]
               ELSE st
         IN  EnforceLoop(order, k + 1, dest, lake, next)

\* The closing loop over _DIRECTIONS_8 that clears the mask where the
\* profile still rises, from direction idx on.
RECURSIVE ClearInvalid(_, _, _, _)
ClearInvalid(idx, fd, h2, mask) ==
    IF idx > 7 THEN mask
    ELSE ClearInvalid(idx + 1, fd, h2,
            [c \in Cells |->
                IF /\ mask[c] > 0 /\ fd[c] = idx
                   /\ Invalid(h2[c], _shift_float(h2, idx, Inf, c))
                THEN 0 ELSE mask[c]])

enforce_downhill_river_profile(h, fd, flow_accum_raw, river, lake, rule) ==
    LET mask0 == [c \in Cells |-> IF lake[c] \/ fd[c] < 0 THEN 0 ELSE river[c]]
        dest  == _flow_dest_from_dir(fd)
        order == Argsort(flow_accum_raw, rule)
        st    == EnforceLoop(order, 1, dest, lake, [h |-> h, mask |-> mask0])
    IN  [adjusted_mask |-> ClearInvalid(0, fd, st.h, st.mask), h2 |-> st.h]

\* Whether assert_downhill_river_routing raises ValueError.
assert_downhill_river_routing_raises(h_drain, fd, river) ==
    \E idx \in DirIndices : \E c \in Cells :
        /\ river[c] > 0 /\ fd[c] = idx
        /\ ~((h_drain[c] - _shift_float(h_drain, idx, Inf, c)) >= -Tolerance)

\* The arguments of the call: elevations that differ by less than the
\* tolerance, by more, and by more than min_drop; directions along the row
\* (2 and 3), -1 for none; any river and lake mask; any accumulation order.
RiverElevations == {0, 1, 150}
RiverDirs == {-1, 2, 3}
MaxAccum == 2
\* river_mask holds widths: 0 off the rivers, positive on them
RiverWidths == {0, 1}

InitRiver ==
    /\ pc = "input"
    /\ shape = RiverShape
    /\ tie_rule \in TieRules
    /\ inp \in {a \in [height         : [CellsOf(RiverShape) -> RiverElevations],
                        flow_dir       : [CellsOf(RiverShape) -> RiverDirs],
                        flow_accum_raw : [CellsOf(RiverShape) -> 1 .. MaxAccum],
                        river_mask     : [CellsOf(RiverShape) -> RiverWidths],
                        lake_mask      : [CellsOf(RiverShape) -> BOOLEAN]] :
                    \A c \in CellsOf(RiverShape) :
                        a.river_mask[c] = 0 => a.flow_dir[c] = -1}
    /\ out = [call |-> "none"]

CallEnforceDownhill ==
    /\ pc = "input"
    /\ out' = [call |-> "enforce_downhill_river_profile"] @@
              enforce_downhill_river_profile(inp.height, inp.flow_dir,
                  inp.flow_accum_raw, inp.river_mask, inp.lake_mask, tie_rule)
    /\ pc' = "enforced"
    /\ UNCHANGED <<shape, tie_rule, inp>>

\* run_hydrology's next statement.
CallAssertDownhill ==
    /\ pc = "enforced"
    /\ pc' = IF assert_downhill_river_routing_raises(out.h2, inp.flow_dir,
                                                     out.adjusted_mask)
             THEN "ValueError" ELSE "asserted"
    /\ UNCHANGED <<shape, tie_rule, inp, out>>

NextRiver == CallEnforceDownhill \/ CallAssertDownhill

SpecRiver == InitRiver /\ [][NextRiver]_vars

\* The downstream cell of c under the call's flow_dir.
RiverDest(c) == _flow_dest_from_dir(inp.flow_dir)[c]

\* C2: once enforce_downhill_river_profile has returned (mask', h'), every
\* cell with mask' > 0 and flow_dir >= 0 has a downstream cell that is at
\* most 1e-4 above it, and the assert that follows does not raise.
C2_DownhillAfterEnforce ==
    /\ pc # "ValueError"
    /\ pc \in {"enforced", "asserted"} =>
          \A c \in Cells :
              (out.adjusted_mask[c] > 0 /\ inp.flow_dir[c] >= 0) =>
                  /\ RiverDest(c) >= 0
                  /\ out.h2[RiverDest(c)] <= out.h2[c] + Tolerance

\* The assert passed on a run where a kept river cell had its downstream
\* cell lowered and another river cell, routed to a cell that is no lake,
\* lost its mask.
C2_Witness ==
    /\ pc = "asserted"
    /\ \E c \in Cells :
          /\ out.adjusted_mask[c] > 0
          /\ out.h2[RiverDest(c)] < inp.height[RiverDest(c)]
    /\ \E c \in Cells :
          /\ inp.river_mask[c] > 0 /\ ~inp.lake_mask[c] /\ RiverDest(c) >= 0
          /\ ~inp.lake_mask[RiverDest(c)]
          /\ out.adjusted_mask[c] = 0

----------------------------------------------------------------------------
(* validate_flow_fields, as run_hydrology calls it *)

\* Accumulations are in units of 1e-5: 1.0 is Unit and 1e-4 is 10.  NaN is a code outside
\* the range of the accumulations; it is read only by np.isnan, which is
\* tested before any comparison.
NaN == -999999999
Unit == 100000
SelfContributionTolerance == 10

\* min_land < 1.0 - 1e-4
NeverBelow(min_land) == FALSE
BelowSelfContribution(min_land) == min_land < Unit - SelfContributionTolerance

\* np.min / np.max over the cells S of a raster without NaN
RECURSIVE MinOver(_, _)
MinOver(f, S) ==
    LET c == CHOOSE x \in S : TRUE
    IN  IF S = {c} THEN f[c] ELSE Min(f[c], MinOver(f, S \ {c}))

RECURSIVE MaxOver(_, _)
MaxOver(f, S) ==
    LET c == CHOOSE x \in S : TRUE
    IN  IF S = {c} THEN f[c] ELSE Max(f[c], MaxOver(f, S \ {c}))

\* The message of the ValueError validate_flow_fields raises, "" if it
\* returns.  mean = sum / n, so max <= 10 * mean is max * n <= 10 * sum and
\* nonzero_fraction < 0.98 is 100 * positive < 98 * n.
validate_flow_fields(accum, land) ==
    LET land_cells == {c \in Cells : land[c]}
        land_flow  == IF land_cells # {} THEN land_cells ELSE Cells
        positive   == Cardinality({c \in land_cells : accum[c] > 0})
        n          == Cardinality(land_flow)
        total      == SumOf(accum, land_flow)
        max_flow   == MaxOver(accum, land_flow)
    IN  IF \E c \in Cells : accum[c] = NaN
        THEN "flow_accum contains NaN"
        ELSE IF \E c \in Cells : accum[c] < 0
        THEN "flow_accum has negative values"
        ELSE IF land_cells # {} /\ BelowSelfContribution(MinOver(accum, land_cells))
        THEN "flow_accum has land value below self-contribution"
        ELSE IF land_cells # {} /\ 100 * positive < 98 * Cardinality(land_cells)
        THEN "flow_accum nonzero fraction too low"
        ELSE IF total > 0 /\ max_flow * n <= 10 * total
        THEN "flow_accum lacks expected heavy-tail ratio"
        ELSE ""

\* The rasters handed to validate_flow_fields: accumulation 1 everywhere
\* but on two cells, which hold any of AccumValues; all land, one ocean
\* cell, or no land.
AccumValues == {NaN, -Unit, 0, Unit \div 2, Unit - 5, Unit, 200 * Unit}
ValidateLandMasks ==
    {[c \in CellsOf(ValidateShape) |-> TRUE], [c \in CellsOf(ValidateShape) |-> c # 0],
     [c \in CellsOf(ValidateShape) |-> FALSE]}

InitValidate ==
    /\ pc = "input"
    /\ shape = ValidateShape
    /\ tie_rule = "low_index_first"
    /\ \E p, q \in CellsOf(ValidateShape) : \E v, w \in AccumValues :
       \E land \in ValidateLandMasks :
          inp = [flow_accum |-> [c \in CellsOf(ValidateShape) |->
                                    IF c = q THEN w ELSE IF c = p THEN v ELSE Unit],
                 land_mask  |-> land]
    /\ out = [call |-> "none"]

\* validate_flow_fields(post_state.flow_accum, post_state.flow_dir, land_mask)
CallValidateFlowFields ==
    /\ pc = "input"
    /\ \E msg \in {validate_flow_fields(inp.flow_accum, inp.land_mask)} :
          IF msg = ""
          THEN pc' = "validated" /\ out' = [call |-> "validate_flow_fields"]
          ELSE pc' = "ValueError" /\ out' = [call |-> "validate_flow_fields",
                                            message |-> msg]
    /\ UNCHANGED <<shape, tie_rule, inp>>

\* The rest of run_hydrology, up to "return HydrologyResult(...)".
ReturnHydrologyResult ==
    /\ pc = "validated"
    /\ pc' = "returned"
    /\ out' = [call |-> "run_hydrology", result |-> "HydrologyResult"]
    /\ UNCHANGED <<shape, tie_rule, inp>>

NextValidate == CallValidateFlowFields \/ ReturnHydrologyResult

SpecValidate == InitValidate /\ [][NextValidate]_vars

\* The conditions of the claim, read off the input rasters.
LandCells == {c \in Cells : inp.land_mask[c]}
HasNaN == \E c \in Cells : inp.flow_accum[c] = NaN
HasNegative == \E c \in Cells : inp.flow_accum[c] # NaN /\ inp.flow_accum[c] < 0
LandValueBelow(limit) ==
    \E c \in LandCells : inp.flow_accum[c] # NaN /\ inp.flow_accum[c] < limit
FewPositive ==
    /\ ~HasNaN
    /\ 100 * Cardinality({c \in LandCells : inp.flow_accum[c] > 0})
           < 98 * Cardinality(LandCells)
NoHeavyTail ==
    /\ ~HasNaN /\ LandCells # {}
    /\ SumOf(inp.flow_accum, LandCells) > 0
    /\ MaxOver(inp.flow_accum, LandCells) * Cardinality(LandCells)
           <= 10 * SumOf(inp.flow_accum, LandCells)
Rejected(limit) ==
    HasNaN \/ HasNegative \/ LandValueBelow(limit) \/ FewPositive \/ NoHeavyTail
NoResult == pc \in {"input", "ValueError"} /\ "result" \notin DOMAIN out

----------------------------------------------------------------------------
(* geomorph.apply_hierarchical_incision and _enforce_noninversion.         *)
(* Heights and depths are in units of 1e-3 m here, so eps = 1e-3 is 1.     *)

\* geomorph._shift_float on an h x w raster:
\* out[src_y0:src_y1, src_x0:src_x1] = arr[dst_y0:dst_y1, dst_x0:dst_x1].
\* For each cell of out, the cell of arr it is copied from, or -1 where out
\* keeps the fill value.
GeomorphShiftSource(h, w, dy, dx) ==
    LET src_y0 == Max(0, -dy)
        src_y1 == Min(h, h - dy)
        src_x0 == Max(0, -dx)
        src_x1 == Min(w, w - dx)
        dst_y0 == src_y0 + dy
        dst_x0 == src_x0 + dx
    IN  [c \in 0 .. (h * w - 1) |->
            IF /\ (c \div w) >= src_y0 /\ (c \div w) < src_y1
               /\ (c % w) >= src_x0 /\ (c % w) < src_x1
            THEN ((c \div w) - src_y0 + dst_y0) * w + ((c % w) - src_x0 + dst_x0)
            ELSE -1]

GeomorphShiftSourceOfDir ==
    [s \in Shapes |->
        [idx \in DirIndices |->
            GeomorphShiftSource(s[1], s[2], DirDy(idx), DirDx(idx))]]

\* geomorph._shift_float(arr, dy, dx, fill) for direction dir_idx, at cell c.
geomorph_shift_float(arr, idx, fill, c) ==
    IF GeomorphShiftSourceOfDir[shape][idx][c] >= 0
    THEN arr[GeomorphShiftSourceOfDir[shape][idx][c]]
    ELSE fill

\* np.clip(x, 0.0, None) and np.clip(x, 0.0, 1.0)
Unclipped(x) == x
ClipAtZero(x) == Max(x, 0)
Clip01(x) == Min(Max(x, 0), 1)

NoninversionEps == 1

\* The loop over _DIRECTIONS_8 of _enforce_noninversion, from direction idx
\* on; capped is updated in place, so inc_down reads the caps already set.
RECURSIVE NoninversionLoop(_, _, _, _, _)
NoninversionLoop(idx, base, fd, land, capped) ==
    IF idx > 7 THEN capped
    ELSE NoninversionLoop(idx + 1, base, fd, land,
            [c \in Cells |->
                IF land[c] /\ fd[c] = idx
                THEN LET base_down == geomorph_shift_float(base, idx, Inf, c)
                         inc_down  == geomorph_shift_float(capped, idx, 0, c)
                         max_allowed == ClipAtZero(base[c] - base_down + inc_down
                                                     - NoninversionEps)
                     IN  Min(capped[c], max_allowed)
                ELSE capped[c]])

_enforce_noninversion(base_height, incision_depth, fd, land) ==
    LET capped == NoninversionLoop(0, base_height, fd, land, incision_depth)
    IN  [c \in Cells |-> IF land[c] THEN capped[c] ELSE 0]

\* apply_hierarchical_incision from incision_blurred on: the stream power,
\* its scaling to [0, 1] and the blur enter as the raster blurred
\* (incision_blurred); max_depth is config.geomorph_max_depth_m and
\* strength is config.geomorph_incision_strength * 320.
apply_hierarchical_incision(h_hydro_post, blurred, fd, land, max_depth, strength) ==
    IF \A c \in Cells : ~land[c]
    THEN [h_geomorph |-> h_hydro_post, incision_depth_m |-> [c \in Cells |-> 0]]
    ELSE
    LET depth_scale == max_depth * Clip01(strength)
        depth0 == [c \in Cells |->
                     IF land[c]
                     THEN Min(blurred[c] * depth_scale, max_depth)
                     ELSE 0]
        incision_depth == _enforce_noninversion(h_hydro_post, depth0, fd, land)
    IN  [h_geomorph |-> [c \in Cells |->
                            IF land[c] THEN h_hydro_post[c] - incision_depth[c]
                            ELSE h_hydro_post[c]],
         incision_depth_m |-> incision_depth]

\* The arguments: two elevations, incision_blurred 0 or 1 (0 off the land,
\* as "incision_blurred *= land" leaves it), directions along the row or
\* none, any land mask, and configurations with a negative, zero and
\* positive depth cap and a strength below, inside and above the clip.
GeomorphElevations == {0, 3}
GeomorphDirs == {-1, 2, 3}
GeomorphMaxDepths == {-4, 0, 4}
GeomorphStrengths == {-1, 0, 1, 2}

InitGeomorph ==
    /\ pc = "input"
    /\ shape = GeomorphShape
    /\ tie_rule = "low_index_first"
    /\ inp \in {a \in [h_hydro_post         : [CellsOf(GeomorphShape) -> GeomorphElevations],
                        incision_blurred     : [CellsOf(GeomorphShape) -> {0, 1}],
                        flow_dir             : [CellsOf(GeomorphShape) -> GeomorphDirs],
                        land_mask            : [CellsOf(GeomorphShape) -> BOOLEAN],
                        geomorph_max_depth_m : GeomorphMaxDepths,
                        strength_x320        : GeomorphStrengths] :
                    \A c \in CellsOf(GeomorphShape) :
                        ~a.land_mask[c] => a.incision_blurred[c] = 0}
    /\ out = [call |-> "none"]

CallApplyHierarchicalIncision ==
    /\ pc = "input"
    /\ out' = [call |-> "apply_hierarchical_incision"] @@
              apply_hierarchical_incision(inp.h_hydro_post, inp.incision_blurred,
                  inp.flow_dir, inp.land_mask, inp.geomorph_max_depth_m,
                  inp.strength_x320)
    /\ pc' = "incised"
    /\ UNCHANGED <<shape, tie_rule, inp>>

SpecGeomorph == InitGeomorph /\ [][CallApplyHierarchicalIncision]_vars

OceanUnchanged ==
    \A c \in Cells : ~inp.land_mask[c] => out.h_geomorph[c] = inp.h_hydro_post[c]
LandNotLifted ==
    \A c \in Cells : inp.land_mask[c] => inp.h_hydro_post[c] - out.h_geomorph[c] >= 0

\* C8 (amended): apply_hierarchical_incision leaves every ocean cell
\* unchanged, and never lifts a land cell when geomorph_max_depth_m >= 0,
\* whatever flow_dir and the incision raster are.
C8_OceanKeptLandNotLifted ==
    pc = "incised" =>
        /\ OceanUnchanged
        /\ inp.geomorph_max_depth_m >= 0 => LandNotLifted

\* C8 (as claimed): the same for every configuration.
C8_AsClaimed == pc = "incised" => (OceanUnchanged /\ LandNotLifted)

\* A land cell is incised, by less than the depth asked for because the cap
\* of _enforce_noninversion applied, next to an ocean cell.
C8_Witness ==
    /\ pc = "incised"
    /\ inp.geomorph_max_depth_m > 0
    /\ \E c \in Cells : ~inp.land_mask[c]
    /\ \E c \in Cells :
          /\ inp.land_mask[c]
          /\ out.incision_depth_m[c] > 0
          /\ out.incision_depth_m[c] < inp.geomorph_max_depth_m
          /\ inp.incision_blurred[c] * Clip01(inp.strength_x320) = 1

----------------------------------------------------------------------------
(* The final clamp of generate_heightfield; heights in metres.             *)

\* HeightConfig defaults, which every caller of generate_heightfield uses
max_ocean_depth_m == 5200
max_land_height_m == 6800
min_land_height_m == 5

\* np.clip(h_final_pre, -max_ocean_depth_m, max_land_height_m)
NoFinalClip(x) == x
FinalClip(x) == Min(Max(x, -max_ocean_depth_m), max_land_height_m)

\* h_final = clip(h_final_pre, ...); h_final[~land] = minimum(h_final[~land],
\* 0.0); h_final[land] = maximum(h_final[land], min_land_height_m)
FinalHeight(h_final_pre, land) ==
    [c \in Cells |->
        IF land[c] THEN Max(FinalClip(h_final_pre[c]), min_land_height_m)
        ELSE Min(FinalClip(h_final_pre[c]), 0)]

\* h_final_pre below, at, inside and above the two bounds and the land floor
PreClampHeights ==
    {-max_ocean_depth_m - 800, -max_ocean_depth_m, -100, 0, min_land_height_m - 2,
     100, max_land_height_m, max_land_height_m + 200}

InitClamp ==
    /\ pc = "input"
    /\ shape = ClampShape
    /\ tie_rule = "low_index_first"
    /\ inp \in [h_final_pre : [CellsOf(ClampShape) -> PreClampHeights],
                land        : [CellsOf(ClampShape) -> BOOLEAN]]
    /\ out = [call |-> "none"]

CallFinalClamp ==
    /\ pc = "input"
    /\ out' = [call |-> "generate_heightfield",
               height_m |-> FinalHeight(inp.h_final_pre, inp.land)]
    /\ pc' = "clamped"
    /\ UNCHANGED <<shape, tie_rule, inp>>

SpecClamp == InitClamp /\ [][CallFinalClamp]_vars

\* C9: the final height_m is within [-max_ocean_depth_m, max_land_height_m]
\* at every cell, the cells changed by the ocean ceiling and by the land
\* floor included.
C9_HeightWithinBounds ==
    pc = "clamped" =>
        \A c \in Cells : /\ -max_ocean_depth_m <= out.height_m[c]
                          /\ out.height_m[c] <= max_land_height_m

\* An ocean cell pulled down to 0, a land cell raised to the floor and a
\* cell cut at a bound, in one raster.
C9_Witness ==
    /\ pc = "clamped"
    /\ \E c \in Cells : ~inp.land[c] /\ inp.h_final_pre[c] > 0 /\ out.height_m[c] = 0
    /\ \E c \in Cells : /\ inp.land[c] /\ inp.h_final_pre[c] < min_land_height_m
                         /\ out.height_m[c] = min_land_height_m
    /\ \E c \in Cells : /\ inp.h_final_pre[c] > max_land_height_m
                         /\ out.height_m[c] = max_land_height_m

----------------------------------------------------------------------------
(* mask.generate_land_mask from the potential field on, and                *)
(* metrics.connected_components_metrics.  The potential and the fractions  *)
(* of MaskConfig are in hundredths, the threshold in units of 1e-4.        *)

\* MaskConfig defaults
target_land_fraction == 36
min_land_fraction == 15
max_land_fraction == 65
dominant_land_ratio == 55
smooth_iterations == 2
threshold_relaxation == 4

\* The in-grid cells of the 3 x 3 window around each cell of an h x w raster
WindowOf(h, w) ==
    [c \in 0 .. (h * w - 1) |->
        {n \in 0 .. (h * w - 1) :
            /\ (n \div w) - (c \div w) \in {-1, 0, 1}
            /\ (n % w) - (c % w) \in {-1, 0, 1}}]

WindowOfShape == [s \in Shapes |-> WindowOf(s[1], s[2])]

\* The cells of the 3 x 3 window of padded, a cell of the mask at its centre
Window(c) == WindowOfShape[shape][c]

\* _majority_filter: neighborhood >= 5, the padding counting as 0
_majority_filter(mask) ==
    [c \in Cells |-> Cardinality({n \in Window(c) : mask[n]}) >= 5]

RECURSIVE _smooth_mask(_, _)
_smooth_mask(mask, iterations) ==
    IF iterations <= 0 THEN mask
    ELSE _smooth_mask(_majority_filter(mask), iterations - 1)

\* The cells the stack of connected_components_metrics visits from start
RECURSIVE Component(_, _, _)
Component(land_cells, frontier, visited) ==
    IF frontier = {} THEN visited
    ELSE LET reached == {n \in land_cells \ visited :
                            \E f \in frontier : n \in Window(f)}
         IN  Component(land_cells, reached, visited \cup reached)

RECURSIVE LargestComponent(_, _)
LargestComponent(land_cells, largest) ==
    IF land_cells = {} THEN largest
    ELSE LET start == CHOOSE c \in land_cells : \A d \in land_cells : c <= d
             comp  == Component(land_cells, {start}, {start})
         IN  LargestComponent(land_cells \ comp, Max(largest, Cardinality(comp)))

\* connected_components_metrics(mask, connectivity=8): the two counts the
\* ratios are made of (largest_land_ratio is 0.0 without land)
connected_components_metrics(mask) ==
    LET land_cells == {c \in Cells : mask[c]}
    IN  [largest_component_area |-> LargestComponent(land_cells, 0),
         total_land_pixels      |-> Cardinality(land_cells)]

\* metrics.largest_land_ratio < cfg.dominant_land_ratio
BelowDominant(metrics) ==
    100 * metrics.largest_component_area
        < dominant_land_ratio * metrics.total_land_pixels
    \/ metrics.total_land_pixels = 0

\* The k-th smallest value (k from 0) of a raster
KthSmallest(f, k) ==
    CHOOSE v \in {f[c] : c \in Cells} :
        /\ Cardinality({c \in Cells : f[c] <= v}) >= k + 1
        /\ Cardinality({c \in Cells : f[c] < v}) <= k

\* np.quantile(potential, 1.0 - target_land), linear interpolation between
\* the two order statistics around position q * (n - 1); in units of 1e-4
Quantile(potential, target_land) ==
    LET position == (100 - target_land) * (Size - 1)
        lower    == KthSmallest(potential, position \div 100)
        upper    == KthSmallest(potential, Min((position \div 100) + 1, Size - 1))
    IN  100 * lower + (position % 100) * (upper - lower)

\* potential >= threshold
AboveThreshold(potential, threshold) ==
    [c \in Cells |-> 100 * potential[c] >= threshold]

\* The potential fields: constant along each column, on three levels
MaskPotentials == {0, 90, 100}

InitMask ==
    /\ pc = "input"
    /\ shape = MaskShape
    /\ tie_rule = "low_index_first"
    /\ \E profile \in [0 .. (MaskShape[2] - 1) -> MaskPotentials] :
          inp = [potential |-> [c \in CellsOf(MaskShape) |-> profile[c % MaskShape[2]]]]
    /\ out = [call |-> "none"]

\* threshold = quantile; land = _smooth_mask(potential >= threshold);
\* metrics = connected_components_metrics(land)
FirstThreshold ==
    /\ pc = "input"
    /\ \E target_land \in {Min(Max(target_land_fraction, min_land_fraction),
                                 max_land_fraction)} :
       \E threshold \in {Quantile(inp.potential, target_land)} :
       \E land \in {_smooth_mask(AboveThreshold(inp.potential, threshold),
                                  smooth_iterations)} :
          out' = [call |-> "generate_land_mask", threshold |-> threshold,
                  land_mask |-> land, attempt |-> 0,
                  metrics |-> connected_components_metrics(land)]
    /\ pc' = "checked"
    /\ UNCHANGED <<shape, tie_rule, inp>>

\* One pass of "for attempt in range(3)"
RelaxThreshold ==
    /\ \/ pc = "checked" /\ BelowDominant(out.metrics)
       \/ pc = "relaxing" /\ BelowDominant(out.metrics) /\ out.attempt < 3
    /\ \E threshold \in {out.threshold
                            - 100 * threshold_relaxation * (out.attempt + 1)} :
       \E land \in {_smooth_mask(AboveThreshold(inp.potential, threshold),
                                  smooth_iterations + 1)} :
          out' = [out EXCEPT !.threshold = threshold, !.land_mask = land,
                             !.attempt = out.attempt + 1,
                             !.metrics = connected_components_metrics(land)]
    /\ pc' = "relaxing"
    /\ UNCHANGED <<shape, tie_rule, inp>>

\* return LandMaskResult(...)
ReturnLandMask ==
    /\ \/ pc = "checked" /\ ~BelowDominant(out.metrics)
       \/ pc = "relaxing" /\ (~BelowDominant(out.metrics) \/ out.attempt = 3)
    /\ pc' = "returned"
    /\ UNCHANGED <<shape, tie_rule, inp, out>>

NextMask == FirstThreshold \/ RelaxThreshold \/ ReturnLandMask

SpecMask == InitMask /\ [][NextMask]_vars

\* C10 (as claimed): every returned land mask has a largest 8-connected
\* component with at least dominant_land_ratio of the land pixels and a
\* land fraction within [min_land_fraction, max_land_fraction].
C10_DominantLandInBounds ==
    pc = "returned" =>
        /\ ~BelowDominant(connected_components_metrics(out.land_mask))
        /\ min_land_fraction * Size
              <= 100 * Cardinality({c \in Cells : out.land_mask[c]})
        /\ 100 * Cardinality({c \in Cells : out.land_mask[c]})
              <= max_land_fraction * Size

----------------------------------------------------------------------------
(* generate_heightfield run twice on the same arguments.  Rasters are      *)
(* abstracted to digests in 0 .. Modulus - 1; what is kept is which values *)
(* each stage reads: its arguments, the streams forked for it, and, in     *)
(* apply_hierarchical_incision, the clock.                                 *)

Modulus == 5
MaxSeed == 2
MaxEntropy == 1
MaxElapsed == 1

Runs == {1, 2}

\* The fork keys of the stages, by position
ForkKeys ==
    <<"mask", "mask-potential", "tectonics", "uplift", "detail", "hydrology",
      "routing-noise">>
KeyCode(key) == CHOOSE i \in 1 .. Len(ForkKeys) : ForkKeys[i] = key

\* A digest of two values that depends on both
Mix(a, b) == (2 * a + 3 * b + 1) % Modulus

\* derive_seed / RngStream.fork: a digest of the parent seed and the key
fork(parent_seed, key) == Mix(parent_seed, KeyCode(key))

\* RngStream.generator() and the draws of the stage: PCG64 is seeded with
\* the stream's seed; the entropy of the process is not read.
FromEntropy(stream_seed, entropy) == Mix(stream_seed, 1 + entropy)
generator(stream_seed, entropy) == Mix(stream_seed, 1)

TieCode(rule) == IF rule = "low_index_first" THEN 0 ELSE 1

\* The fields a stage adds to the run's results, from the arguments args,
\* the results so far, the build's tie rule, the entropy of the process and
\* the time measured around the incision.
StageFields(stage, args, res, rule, entropy, elapsed) ==
    IF stage = "mask"
    THEN [land_mask |-> Mix(Mix(args.size, args.config),
                            generator(fork(fork(args.seed, "mask"), "mask-potential"),
                                      entropy))]
    ELSE IF stage = "tectonics"
    THEN [tectonics |-> Mix(res.land_mask,
                            generator(fork(args.seed, "tectonics"), entropy))]
    ELSE IF stage = "height"
    THEN [h_tectonic |-> Mix(Mix(res.land_mask, res.tectonics),
                             generator(fork(args.seed, "uplift"), entropy)),
          detail     |-> generator(fork(args.seed, "detail"), entropy)]
    ELSE IF stage = "hydrology"
    THEN LET noise == generator(fork(fork(args.seed, "hydrology"), "routing-noise"),
                                entropy)
             accum == Mix(Mix(res.h_tectonic, noise), TieCode(rule))
             fd    == Mix(accum, res.h_tectonic)
             river == Mix(accum, fd)
         IN  [flow_accum_raw |-> accum, flow_dir |-> fd, river_mask |-> river,
              lake_mask |-> Mix(fd, res.land_mask),
              h_hydro |-> Mix(res.h_tectonic, river)]
    ELSE IF stage = "geomorph"
    THEN [h_geomorph |-> Mix(res.h_hydro, Mix(res.flow_accum_raw, res.flow_dir)),
          incision_seconds |-> elapsed]
    ELSE [height_m |-> Mix(res.h_geomorph,
                           Mix(res.detail, Mix(res.river_mask, res.lake_mask)))]

\* The stages of generate_heightfield in program order
Stages == <<"mask", "tectonics", "height", "hydrology", "geomorph", "final">>
StageAfter(position) ==
    IF position = "start" THEN Stages[1]
    ELSE Stages[(CHOOSE i \in 1 .. Len(Stages) : Stages[i] = position) + 1]

InitPipeline ==
    /\ pc = [r \in Runs |-> "start"]
    /\ shape = <<1, 1>>
    /\ tie_rule \in TieRules
    /\ inp \in [seed : 0 .. MaxSeed, size : 0 .. 1, config : 0 .. 1]
    /\ out = [r \in Runs |-> [call |-> "generate_heightfield"]]

\* One run executes its next stage.
RunStage(r) ==
    /\ pc[r] # "final"
    /\ \E entropy \in 0 .. MaxEntropy : \E elapsed \in 0 .. MaxElapsed :
          out' = [out EXCEPT ![r] =
                    StageFields(StageAfter(pc[r]), inp, out[r], tie_rule,
                                entropy, elapsed) @@ out[r]]
    /\ pc' = [pc EXCEPT ![r] = StageAfter(pc[r])]
    /\ UNCHANGED <<shape, tie_rule, inp>>

NextPipeline == \E r \in Runs : RunStage(r)

SpecPipeline == InitPipeline /\ [][NextPipeline]_vars

ClaimedOutputs == {"height_m", "flow_dir", "flow_accum_raw", "river_mask", "lake_mask"}

----------------------------------------------------------------------------
(* _merge_ocean_outlets and the basin counts of run_hydrology.             *)

\* The position of v among the sorted distinct values S, from 0:
\* the inverse of np.unique(..., return_inverse=True).
RankIn(v, S) == Cardinality({u \in S : u < v})

\* _cluster_points_radius: keys (y // r, x // r), one label per distinct
\* key in lexicographic order.
ClusterKey(p, r) == (Row(p) \div r) * GridW + (Col(p) \div r)
_cluster_points_radius(points, radius) ==
    LET r == Max(1, radius)
    IN  [p \in points |->
            RankIn(ClusterKey(p, r), {ClusterKey(q, r) : q \in points})]

\* The cells that carry merged id mid, and whether the centre of large id a
\* is strictly nearer to the centre of mid than the centre of large id b
\* (the centres are means, compared here without the division).
PixelsOf(out_flat, mid) == {c \in Cells : out_flat[c] = mid}
CentreDistance(out_flat, mid, large) ==
    LET pm == PixelsOf(out_flat, mid)
        pl == PixelsOf(out_flat, large)
        n  == Cardinality(pm)
        m  == Cardinality(pl)
        dy == SumOf([c \in Cells |-> Row(c)], pl) * n
              - SumOf([c \in Cells |-> Row(c)], pm) * m
        dx == SumOf([c \in Cells |-> Col(c)], pl) * n
              - SumOf([c \in Cells |-> Col(c)], pm) * m
    IN  [num |-> dy * dy + dx * dx, den |-> m * m]
Nearer(out_flat, mid, a, b) ==
    CentreDistance(out_flat, mid, a).num * CentreDistance(out_flat, mid, b).den
    < CentreDistance(out_flat, mid, b).num * CentreDistance(out_flat, mid, a).den

\* "collapse tiny coastal basins into nearest large merged basin": the
\* large ids keep their id, every other id takes the nearest large id;
\* np.argmin takes the first of the nearest.
NearestLarge(out_flat, large_ids, mid) ==
    CHOOSE a \in large_ids :
        \A b \in large_ids \ {a} :
            \/ Nearer(out_flat, mid, a, b)
            \/ ~Nearer(out_flat, mid, b, a) /\ a < b
CollapseTiny(out_flat, min_basin_pixels) ==
    LET merged_ids == {out_flat[c] : c \in Cells} \ {0}
        counts     == [mid \in merged_ids |-> Cardinality(PixelsOf(out_flat, mid))]
        large_ids  == {mid \in merged_ids : counts[mid] >= Max(1, min_basin_pixels)}
        remap      == [mid \in merged_ids |->
                          IF counts[mid] >= min_basin_pixels THEN mid
                          ELSE NearestLarge(out_flat, large_ids, mid)]
    IN  IF large_ids = {} THEN out_flat
        ELSE [c \in Cells |-> IF out_flat[c] > 0 THEN remap[out_flat[c]] ELSE 0]

\* _merge_ocean_outlets on a drainage state: clustering of the raw outlet
\* cells, collapse of tiny basins, compaction of the ids to 1..N and the
\* basin ids over exorheic and endorheic land.
_merge_ocean_outlets(state, land, merge_radius_px, min_basin_pixels) ==
    LET outlet_raw  == state.outlet_raw_flat
        land_exo    == {c \in Cells : land[c] /\ outlet_raw[c] >= 0}
        raw_outlets == {outlet_raw[c] : c \in land_exo}
    IN  IF raw_outlets = {}
        THEN [outlet_id    |-> [c \in Cells |-> 0],
              basin_id_map |-> [c \in Cells |-> -1],
              merged_count |-> 0]
        ELSE
        LET labels    == _cluster_points_radius(raw_outlets, Max(1, merge_radius_px))
            clustered == [c \in Cells |->
                            IF c \in land_exo THEN labels[outlet_raw[c]] + 1 ELSE 0]
            collapsed == CollapseTiny(clustered, min_basin_pixels)
            final_ids == {collapsed[c] : c \in Cells} \ {0}
            out_flat  == [c \in Cells |->
                            IF collapsed[c] > 0
                            THEN RankIn(collapsed[c], final_ids) + 1
                            ELSE 0]
            basin_key == [c \in Cells |->
                            IF land[c] /\ out_flat[c] > 0 THEN out_flat[c]
                            ELSE IF land[c] /\ state.sink_id_flat[c] >= 0
                            THEN -(state.sink_id_flat[c] + 1)
                            ELSE 0]
            keys      == {basin_key[c] : c \in {d \in Cells : land[d]}}
        IN  [outlet_id    |-> out_flat,
             basin_id_map |-> [c \in Cells |->
                                 IF land[c] THEN RankIn(basin_key[c], keys) + 1
                                 ELSE -1],
             merged_count |-> Cardinality(final_ids)]

\* The basin and outlet counts of HydrologyMetrics, as run_hydrology takes
\* them from post_state and from the result of _merge_ocean_outlets.
BasinMetrics(post_state, land, merge_radius_px, min_basin_pixels) ==
    LET merged   == _merge_ocean_outlets(post_state, land, merge_radius_px,
                                         min_basin_pixels)
        endo_ids == {post_state.sink_id_flat[c] :
                        c \in {d \in Cells : land[d] /\ post_state.sink_id_flat[d] >= 0}}
        raw      == {post_state.outlet_raw_flat[c] :
                        c \in {d \in Cells : land[d] /\ post_state.outlet_raw_flat[d] >= 0}}
    IN  [basin_count_total        |->
             Cardinality({merged.basin_id_map[c] : c \in {d \in Cells : land[d]}}),
         basin_count_retained     |-> Cardinality(endo_ids),
         num_ocean_outlets_raw    |-> Cardinality(raw),
         num_ocean_outlets_merged |-> merged.merged_count,
         sink_id_flat             |-> post_state.sink_id_flat,
         basin_outlet_id          |-> merged.outlet_id]

\* The rasters and the configuration of a run: elevations 0 .. MaxBasinElev
\* on the 2 x 3 raster, any land mask, a merge radius that keeps every
\* outlet apart or joins columns, and a tiny-basin limit that is off, one
\* cell, or above some basins.
MaxBasinElev == 1
MergeRadii == {1, 2}
MinBasinPixels == {0, 1, 3}

InitBasins ==
    /\ pc = "input"
    /\ shape = FlowShape
    /\ tie_rule \in TieRules
    /\ inp \in [h_hydro   : [CellsOf(FlowShape) -> 0 .. MaxBasinElev],
                land_mask : [CellsOf(FlowShape) -> BOOLEAN],
                hydro_outlet_merge_radius_px  : MergeRadii,
                hydro_outlet_min_basin_pixels : MinBasinPixels]
    /\ out = [call |-> "none"]

\* run_hydrology from post_state to the counts of the metrics.
CallMergeOceanOutlets ==
    /\ pc = "input"
    /\ out' = [call |-> "run_hydrology"] @@
              BasinMetrics(_analyze_drainage_state(inp.h_hydro, inp.land_mask, tie_rule),
                           inp.land_mask, inp.hydro_outlet_merge_radius_px,
                           inp.hydro_outlet_min_basin_pixels)
    /\ pc' = "metrics"
    /\ UNCHANGED <<shape, tie_rule, inp>>

SpecBasins == InitBasins /\ [][CallMergeOceanOutlets]_vars

\* C11: in every HydrologyResult basin_count_retained <= basin_count_total
\* and num_ocean_outlets_merged <= num_ocean_outlets_raw.
C11_CountsBounded ==
    pc = "metrics" =>
        /\ out.basin_count_retained <= out.basin_count_total
        /\ out.num_ocean_outlets_merged <= out.num_ocean_outlets_raw

\* The outlet half of C11 alone.
C11_OutletsBounded ==
    pc = "metrics" => out.num_ocean_outlets_merged <= out.num_ocean_outlets_raw

\* The basin half of C11 where some land cell drains to the ocean.
C11_BasinsBoundedWithOutlet ==
    (pc = "metrics" /\ out.num_ocean_outlets_raw > 0) =>
        out.basin_count_retained <= out.basin_count_total

----------------------------------------------------------------------------
(* terrain/seed.py.  A text is a sequence of characters, each a string of  *)
(* length one; " " stands for white space and "-" for a symbol.            *)

Lowercase ==
    <<"a","b","c","d","e","f","g","h","i","j","k","l","m",
      "n","o","p","q","r","s","t","u","v","w","x","y","z">>
Uppercase ==
    <<"A","B","C","D","E","F","G","H","I","J","K","L","M",
      "N","O","P","Q","R","S","T","U","V","W","X","Y","Z">>

IsLower(ch) == \E i \in 1 .. 26 : Lowercase[i] = ch
IsUpper(ch) == \E i \in 1 .. 26 : Uppercase[i] = ch
LetterIndex(ch) == CHOOSE i \in 1 .. 26 : Lowercase[i] = ch \/ Uppercase[i] = ch

\* str.lower, str.upper, str.capitalize and str.strip
CharLower(ch) == IF IsUpper(ch) THEN Lowercase[LetterIndex(ch)] ELSE ch
CharUpper(ch) == IF IsLower(ch) THEN Uppercase[LetterIndex(ch)] ELSE ch
KeepCase(s) == s
StrLower(s) == [i \in 1 .. Len(s) |-> CharLower(s[i])]
StrUpper(s) == [i \in 1 .. Len(s) |-> CharUpper(s[i])]
Capitalize(s) ==
    [i \in 1 .. Len(s) |-> IF i = 1 THEN CharUpper(s[i]) ELSE CharLower(s[i])]
RECURSIVE Strip(_)
Strip(s) ==
    IF s = << >> THEN s
    ELSE IF s[1] = " " THEN Strip(Tail(s))
    ELSE IF s[Len(s)] = " " THEN Strip(SubSeq(s, 1, Len(s) - 1))
    ELSE s

ADJECTIVES ==
    {<<"a","n","c","i","e","n","t">>, <<"a","s","h","e","n">>,
     <<"a","u","t","u","m","n">>, <<"b","i","t","t","e","r">>,
     <<"b","l","a","c","k">>, <<"b","l","e","a","k">>, <<"b","l","u","e">>,
     <<"b","o","l","d">>, <<"b","r","i","s","k">>,
     <<"b","r","o","n","z","e">>, <<"c","a","l","m">>,
     <<"c","l","e","a","r">>, <<"c","o","l","d">>,
     <<"c","r","i","m","s","o","n">>, <<"d","a","r","k">>,
     <<"d","a","w","n">>, <<"d","e","e","p">>, <<"d","u","s","t","y">>,
     <<"e","a","g","e","r">>, <<"e","m","b","e","r">>,
     <<"f","a","d","e","d">>, <<"f","i","e","r","c","e">>,
     <<"f","r","o","z","e","n">>, <<"g","e","n","t","l","e">>,
     <<"g","o","l","d","e","n">>, <<"g","r","a","n","d">>,
     <<"g","r","a","y">>, <<"g","r","e","e","n">>, <<"g","r","i","m">>,
     <<"h","o","l","l","o","w">>, <<"i","c","y">>, <<"i","r","o","n">>,
     <<"j","a","g","g","e","d">>, <<"k","e","e","n">>,
     <<"l","i","v","e","l","y">>, <<"l","o","n","e">>, <<"l","o","n","g">>,
     <<"l","u","n","a","r">>, <<"m","i","s","t","y">>,
     <<"m","o","s","s","y">>, <<"n","o","b","l","e">>,
     <<"n","o","r","t","h">>, <<"o","l","d">>, <<"p","a","l","e">>,
     <<"p","i","n","e">>, <<"p","r","i","m","a","l">>,
     <<"q","u","i","e","t">>, <<"r","a","p","i","d">>, <<"r","e","d">>,
     <<"r","e","m","o","t","e">>, <<"r","o","u","g","h">>,
     <<"r","o","y","a","l">>, <<"r","u","g","g","e","d">>,
     <<"s","a","b","l","e">>, <<"s","c","a","r","l","e","t">>,
     <<"s","i","l","e","n","t">>, <<"s","i","l","v","e","r">>,
     <<"s","m","o","k","y">>, <<"s","n","o","w","y">>,
     <<"s","o","l","i","d">>, <<"s","o","u","t","h">>,
     <<"s","p","a","r","e">>, <<"s","p","r","i","n","g">>,
     <<"s","t","o","n","e">>, <<"s","t","o","r","m">>,
     <<"s","t","r","o","n","g">>, <<"s","u","m","m","e","r">>,
     <<"s","w","i","f","t">>, <<"t","i","m","b","e","r">>,
     <<"v","a","s","t">>, <<"v","e","r","d","a","n","t">>,
     <<"w","a","r","m">>, <<"w","e","s","t">>, <<"w","h","i","t","e">>,
     <<"w","i","l","d">>, <<"w","i","n","t","e","r">>,
     <<"y","o","u","n","g">>}

NOUNS ==
    {<<"a","n","c","h","o","r">>, <<"a","r","c","h">>,
     <<"a","t","l","a","s">>, <<"b","a","s","i","n">>,
     <<"b","e","a","c","o","n">>, <<"b","e","n","d">>,
     <<"b","l","u","f","f">>, <<"b","r","i","d","g","e">>,
     <<"b","r","o","o","k">>, <<"c","a","i","r","n">>,
     <<"c","a","n","y","o","n">>, <<"c","a","p","e">>,
     <<"c","a","v","e","r","n">>, <<"c","i","t","a","d","e","l">>,
     <<"c","l","i","f","f">>, <<"c","o","a","s","t">>, <<"c","o","v","e">>,
     <<"c","r","o","w","n">>, <<"d","e","l","t","a">>, <<"d","u","n","e">>,
     <<"f","a","l","l">>, <<"f","a","n","g">>, <<"f","i","e","l","d">>,
     <<"f","j","o","r","d">>, <<"f","o","r","g","e">>,
     <<"f","o","r","e","s","t">>, <<"g","a","t","e">>,
     <<"g","l","a","d","e">>, <<"g","o","r","g","e">>,
     <<"g","r","o","v","e">>, <<"h","a","r","b","o","r">>,
     <<"h","a","v","e","n">>, <<"h","e","i","g","h","t">>,
     <<"h","i","l","l">>, <<"h","o","l","l","o","w">>, <<"i","s","l","e">>,
     <<"k","e","e","p">>, <<"k","n","o","l","l">>,
     <<"l","a","g","o","o","n">>, <<"l","a","k","e">>,
     <<"m","a","r","c","h">>, <<"m","a","r","s","h">>, <<"m","e","s","a">>,
     <<"m","o","o","r">>, <<"m","o","u","n","t">>, <<"p","e","a","k">>,
     <<"p","l","a","i","n">>, <<"p","o","i","n","t">>,
     <<"r","a","n","g","e">>, <<"r","e","a","c","h">>, <<"r","e","e","f">>,
     <<"r","e","s","t">>, <<"r","i","d","g","e">>, <<"r","i","v","e","r">>,
     <<"s","h","o","r","e">>, <<"s","o","u","n","d">>,
     <<"s","p","i","r","e">>, <<"s","p","r","i","n","g">>,
     <<"s","t","e","p","p","e">>, <<"s","t","r","a","i","t">>,
     <<"s","u","m","m","i","t">>, <<"t","a","r","n">>,
     <<"t","h","i","c","k","e","t">>, <<"v","a","l","e">>,
     <<"v","a","l","l","e","y">>, <<"v","a","u","l","t">>,
     <<"v","i","s","t","a">>, <<"w","a","t","c","h">>,
     <<"w","a","t","e","r">>, <<"w","a","y">>, <<"w","i","l","d","s">>,
     <<"w","o","o","d">>, <<"y","a","r","d">>}

_EXAMPLE_SEEDS ==
    <<"MistyForge", "AncientHarbor", "CrimsonRidge", "SilentCove", "VerdantVale">>

\* _ALPHA_RE.fullmatch(raw): one or more ASCII letters and nothing else
AlphaFullMatch(raw) ==
    /\ Len(raw) >= 1
    /\ \A i \in 1 .. Len(raw) : IsLower(raw[i]) \/ IsUpper(raw[i])

\* The length of the run of characters of one kind that starts at i
RECURSIVE UpperRun(_, _)
UpperRun(raw, i) ==
    IF i <= Len(raw) /\ IsUpper(raw[i]) THEN 1 + UpperRun(raw, i + 1) ELSE 0
RECURSIVE LowerRun(_, _)
LowerRun(raw, i) ==
    IF i <= Len(raw) /\ IsLower(raw[i]) THEN 1 + LowerRun(raw, i + 1) ELSE 0

\* The length of the match of _CAMEL_RE at position i, 0 for no match:
\* [A-Z]+(?=[A-Z][a-z]|$), the longest run of capitals that ends the text or
\* stands before a capital followed by a small letter, else [A-Z]?[a-z]+.
CamelMatch(raw, i) ==
    LET k == UpperRun(raw, i)
    IN  IF k >= 1 /\ i + k - 1 = Len(raw) THEN k
        ELSE IF k >= 2 /\ LowerRun(raw, i + k) >= 1 THEN k - 1
        ELSE IF k >= 1 /\ LowerRun(raw, i + k) >= 1 THEN 1 + LowerRun(raw, i + 1)
        ELSE LowerRun(raw, i)

\* _CAMEL_RE.findall(raw) from position i on
RECURSIVE CamelFindAll(_, _)
CamelFindAll(raw, i) ==
    IF i > Len(raw) THEN << >>
    ELSE IF CamelMatch(raw, i) = 0 THEN CamelFindAll(raw, i + 1)
    ELSE <<SubSeq(raw, i, i + CamelMatch(raw, i) - 1)>>
         \o CamelFindAll(raw, i + CamelMatch(raw, i))

\* _split_camel_case: the two parts in lower case, or << >> for None
_split_camel_case(raw) ==
    LET parts == CamelFindAll(raw, 1)
    IN  IF Len(parts) # 2 THEN << >>
        ELSE IF parts[1] \o parts[2] # raw THEN << >>
        ELSE <<StrLower(parts[1]), StrLower(parts[2])>>

\* _split_concatenated: the splits raw_lower[:i], raw_lower[i:] for i in
\* range(2, len(raw_lower) - 1) that the dictionaries hold, in that order
RECURSIVE SplitsFrom(_, _)
SplitsFrom(raw_lower, i) ==
    IF i >= Len(raw_lower) - 1 THEN << >>
    ELSE LET adjective == SubSeq(raw_lower, 1, i)
             noun      == SubSeq(raw_lower, i + 1, Len(raw_lower))
         IN  (IF adjective \in ADJECTIVES /\ noun \in NOUNS
              THEN << <<adjective, noun>> >> ELSE << >>)
             \o SplitsFrom(raw_lower, i + 1)
NoConcatenatedSplit(raw_lower) == << >>
_split_concatenated(raw_lower) == SplitsFrom(raw_lower, 2)

\* canonical_seed and seed_hash64: the digest of the canonical text, here a
\* polynomial checksum of its letters modulo HashModulus.
canonical_seed(adjective, noun) == adjective \o noun
HashModulus == 65536
RECURSIVE seed_hash64(_)
seed_hash64(seed) ==
    IF seed = << >> THEN 7
    ELSE (31 * seed_hash64(SubSeq(seed, 1, Len(seed) - 1))
          + LetterIndex(seed[Len(seed)])) % HashModulus

\* ParsedSeed(raw, adjective, noun, canonical, seed_hash64(canonical))
ParsedSeed(raw, adjective, noun) ==
    [ok        |-> TRUE,
     original  |-> raw,
     adjective |-> adjective,
     noun      |-> noun,
     canonical |-> canonical_seed(adjective, noun),
     seed_hash |-> seed_hash64(canonical_seed(adjective, noun))]

\* SeedParseError(_error_message(reason)): the message is the reason, the
\* candidate splits where it lists them, " Examples: " and the examples.
SeedParseError(reason, candidates) ==
    [ok             |-> FALSE,
     reason         |-> reason,
     candidates     |-> candidates,
     examples_label |-> "Examples:",
     examples       |-> _EXAMPLE_SEEDS]

\* parse_seed(seed_text) for a text (seed_text is never None here)
parse_seed(seed_text) ==
    LET raw       == Strip(seed_text)
        candidate == _split_camel_case(raw)
        matches   == _split_concatenated(StrLower(raw))
    IN  IF raw = << >> THEN SeedParseError("Seed cannot be empty.", << >>)
        ELSE IF ~AlphaFullMatch(raw)
        THEN SeedParseError("Seed must contain letters only (no spaces or symbols).",
                            << >>)
        ELSE IF /\ candidate # << >>
                /\ candidate[1] \in ADJECTIVES
                /\ candidate[2] \in NOUNS
        THEN ParsedSeed(raw, candidate[1], candidate[2])
        ELSE IF Len(matches) = 1
        THEN ParsedSeed(raw, matches[1][1], matches[1][2])
        ELSE IF Len(matches) > 1
        THEN SeedParseError("Seed is ambiguous. Candidate splits:",
                            [i \in 1 .. Min(4, Len(matches)) |->
                                canonical_seed(matches[i][1], matches[i][2])])
        ELSE SeedParseError("Seed must be adjective+noun from the internal dictionaries.",
                            << >>)

\* The seed texts that are parsed: for two words of the dictionaries, taken
\* as adjective and noun in either role, their concatenation in lower case,
\* in upper case, in CamelCase, with a small first word, with capitals
\* ending in a small tail, between white space, with white space or a
\* hyphen between the words, and the first word alone.
Spellings ==
    {"lower", "upper", "camel", "lowerCamel", "UPPERCamel", "padded",
     "spaced", "hyphen", "single"}
Spell(kind, a, n) ==
    CASE kind = "lower"      -> a \o n
      [] kind = "upper"      -> StrUpper(a \o n)
      [] kind = "camel"      -> Capitalize(a) \o Capitalize(n)
      [] kind = "lowerCamel" -> a \o Capitalize(n)
      [] kind = "UPPERCamel" -> StrUpper(a) \o Capitalize(n)
      [] kind = "padded"     -> <<" ">> \o Capitalize(a) \o Capitalize(n) \o <<" ">>
      [] kind = "spaced"     -> a \o <<" ">> \o n
      [] kind = "hyphen"     -> a \o <<"-">> \o n
      [] kind = "single"     -> a

InitSeed ==
    /\ pc = "input"
    /\ shape = <<1, 1>>
    /\ tie_rule = "low_index_first"
    /\ \E a \in ADJECTIVES \cup NOUNS, n \in NOUNS, kind \in Spellings :
           inp = [seed_text |-> Spell(kind, a, n),
                  adjective |-> a, noun |-> n, spelling |-> kind]
    /\ out = [call |-> "none"]

\* parse_seed(seed_text)
CallParseSeed ==
    /\ pc = "input"
    /\ out' = [call |-> "parse_seed", result |-> parse_seed(inp.seed_text)]
    /\ pc' = "parsed"
    /\ UNCHANGED <<shape, tie_rule, inp>>

\* parse_seed(parse_seed(seed_text).canonical)
CallParseCanonical ==
    /\ pc = "parsed"
    /\ out.result.ok
    /\ out' = [call |-> "parse_seed", result |-> out.result,
               again |-> parse_seed(out.result.canonical)]
    /\ pc' = "reparsed"
    /\ UNCHANGED <<shape, tie_rule, inp>>

NextSeed == CallParseSeed \/ CallParseCanonical
SpecSeed == InitSeed /\ [][NextSeed]_vars

\* C12: for every adjective a and noun n the lower-case, upper-case and
\* CamelCase spellings of a+n are accepted, each with canonical a+n and the
\* seed_hash of a+n, so the three agree.
C12_CaseInsensitive ==
    (/\ pc = "parsed"
     /\ inp.adjective \in ADJECTIVES
     /\ inp.spelling \in {"lower", "upper", "camel"})
    => /\ out.result.ok
       /\ out.result.canonical = inp.adjective \o inp.noun
       /\ out.result.seed_hash = seed_hash64(inp.adjective \o inp.noun)

C12_Witness ==
    /\ pc = "parsed"
    /\ inp.spelling = "upper"
    /\ inp.adjective = <<"m","i","s","t","y">>
    /\ inp.noun = <<"f","o","r","g","e">>
    /\ out.result.ok
    /\ out.result.canonical # inp.seed_text

\* C13 (amended): parsing the canonical text of an accepted seed succeeds
\* and gives the same adjective, noun, canonical and seed_hash; original is
\* the canonical text.
C13_RoundTrip ==
    pc = "reparsed" =>
        /\ out.again.ok
        /\ out.again.adjective = out.result.adjective
        /\ out.again.noun = out.result.noun
        /\ out.again.canonical = out.result.canonical
        /\ out.again.seed_hash = out.result.seed_hash
        /\ out.again.original = out.result.canonical

\* C13 as claimed: the second parse returns the same ParsedSeed.
C13_AsClaimed == pc = "reparsed" => out.again = out.result

C13_Witness ==
    /\ pc = "reparsed"
    /\ out.again.ok
    /\ out.result.original # out.result.canonical

\* No text that is parsed has more than one split over the dictionaries.
AtMostOneSplit ==
    pc = "parsed" => Len(_split_concatenated(StrLower(Strip(inp.seed_text)))) <= 1

----------------------------------------------------------------------------
(* cli/main.py and terrain/io.py: one run of main after another on one     *)
(* output directory.  A directory is a function from the names of its      *)
(* files to what they hold: 1 for a file of the current run, 0 for a file  *)
(* that was there when the run began.                                      *)

\* The files that main stages.  height.npy stands for the three .npy files,
\* height_16.png for the 16-bit raster and hillshade.png for the eleven
\* 8-bit and RGB rasters; the two JSON files are staged under args.json.
RasterFiles == <<"height.npy", "height_16.png", "hillshade.png">>
JsonFiles == <<"deterministic_meta.json", "meta.json">>
StageOrder(json) == IF json THEN RasterFiles \o JsonFiles ELSE RasterFiles
StagedNames(json) == {StageOrder(json)[i] : i \in 1 .. Len(StageOrder(json))}

\* A file that only an earlier run of a higher debug tier wrote; the
\* directory of the first run holds any of it and of the staged names.
StaleFiles == {"debug_plates.png"}

\* The keys of deterministic_meta and the keys that meta adds to them.
DeterministicKeys ==
    {"canonical_seed", "height", "meters_per_pixel", "seed_hash", "width",
     "config", "metrics", "tectonics", "hydrology", "geomorph"}
MetaOnlyKeys ==
    {"generated_at_utc", "original_seed", "generation_seconds",
     "incision_seconds", "python_version", "numpy_version"}

\* time.perf_counter() is monotonic: the readings that can follow reading t.
MaxClock == 2
AnyReading(t) == 0 .. MaxClock
LaterReadings(t) == t .. MaxClock

\* The command lines: --seed in four spellings of misty and forge, --w,
\* --h and --mpp positive or not, --overwrite and --json either way.
CliSpellings == {"camel", "padded", "hyphen", "single"}
CliArgs ==
    [seed      : {Spell(k, <<"m","i","s","t","y">>, <<"f","o","r","g","e">>) :
                     k \in CliSpellings},
     w         : {0, 96},
     h         : {-1, 64},
     mpp       : {0, 5000},
     overwrite : BOOLEAN,
     json      : BOOLEAN]

\* What a run holds when main is entered on the directory dir.
RunStart(exists, dir) ==
    [exit_code          |-> -1,
     parsed             |-> [ok |-> FALSE, reason |-> "not parsed"],
     generated          |-> FALSE,
     generation_seconds |-> -1,
     exists             |-> exists,
     out_dir            |-> [n \in DOMAIN dir |-> 0],
     previous           |-> [n \in DOMAIN dir |-> 0],
     staging            |-> FALSE,
     stage_dir          |-> {},
     deterministic_meta |-> {},
     meta               |-> {}]

InitCli ==
    /\ pc = "parse_seed"
    /\ shape = <<1, 1>>
    /\ tie_rule = "low_index_first"
    /\ inp \in CliArgs
    /\ \E exists \in BOOLEAN, earlier \in SUBSET (StaleFiles \cup StagedNames(TRUE)) :
           /\ (~exists => earlier = {})
           /\ out = RunStart(exists, [n \in earlier |-> 0])

\* The process ends with this status; the finally clause has removed the
\* staging directory.
Exit(code) ==
    /\ pc' = "exit"
    /\ out' = [out EXCEPT !.exit_code = code, !.staging = FALSE, !.stage_dir = {}]
    /\ UNCHANGED <<shape, tie_rule, inp>>

\* main, lines 66-69: parse_seed, and parser.error on SeedParseError, which
\* prints the message and exits with status 2.
ParseSeedErrorUncaught ==
    /\ pc = "parse_seed"
    /\ \E r \in {parse_seed(inp.seed)} :
           IF r.ok
           THEN /\ pc' = "generate"
                /\ out' = [out EXCEPT !.parsed = r]
           ELSE /\ pc' = "exit"
                /\ out' = [out EXCEPT !.parsed = r, !.exit_code = 1]
    /\ UNCHANGED <<shape, tie_rule, inp>>
MainParseSeed ==
    /\ pc = "parse_seed"
    /\ \E r \in {parse_seed(inp.seed)} :
           IF r.ok
           THEN /\ pc' = "generate"
                /\ out' = [out EXCEPT !.parsed = r]
           ELSE /\ pc' = "exit"
                /\ out' = [out EXCEPT !.parsed = r, !.exit_code = 2]
    /\ UNCHANGED <<shape, tie_rule, inp>>

\* main, lines 74-82: generate_heightfield between two readings of the
\* clock.  Its ValueError for a non-positive width, height or
\* meters_per_pixel (heightfield.py:85-88) and the errors of its stages are
\* not caught by main: the process ends with a traceback and status 1.
MainGenerate ==
    /\ pc = "generate"
    /\ \/ /\ inp.w <= 0 \/ inp.h <= 0 \/ inp.mpp <= 0
          /\ Exit(1)
       \/ /\ inp.w > 0 /\ inp.h > 0 /\ inp.mpp > 0
          /\ \/ Exit(1)
             \/ \E generation_start \in 0 .. MaxClock :
                \E generation_end \in LaterReadings(generation_start) :
                    /\ pc' = "resolve"
                    /\ out' = [out EXCEPT
                                 !.generated = TRUE,
                                 !.generation_seconds =
                                     generation_end - generation_start]
                    /\ UNCHANGED <<shape, tie_rule, inp>>

\* resolve_output_dir, then tempfile.mkdtemp for the staging directory.
\* FileExistsError is not caught by main either.
MainResolveOutputDir ==
    /\ pc = "resolve"
    /\ IF out.exists /\ DOMAIN out.out_dir # {} /\ ~inp.overwrite
       THEN Exit(1)
       ELSE /\ pc' = "stage"
            /\ out' = [out EXCEPT !.exists = TRUE, !.staging = TRUE]
            /\ UNCHANGED <<shape, tie_rule, inp>>

\* main, lines 134-216: the files are written into the staging directory in
\* the order of the code; deterministic_meta and meta are built before the
\* two JSON files are written.
MainStageFile ==
    /\ pc = "stage"
    /\ LET order == StageOrder(inp.json)
           k     == Cardinality(out.stage_dir) + 1
       IN  /\ k <= Len(order)
           /\ out' = [out EXCEPT
                        !.stage_dir = @ \cup {order[k]},
                        !.deterministic_meta =
                            IF order[k] = "deterministic_meta.json"
                            THEN DeterministicKeys ELSE @,
                        !.meta =
                            IF order[k] = "meta.json"
                            THEN DeterministicKeys \cup MetaOnlyKeys ELSE @]
           /\ pc' = IF k = Len(order) THEN "clean" ELSE "stage"
    /\ UNCHANGED <<shape, tie_rule, inp>>

\* safe_clean_output_dir: every child of the directory is deleted, one
\* after the other in the order of iterdir().
StagedChildren(dir) == DOMAIN dir \cap StagedNames(TRUE)
ChildrenToDelete(dir) == DOMAIN dir
MainCleanChild ==
    /\ pc = "clean"
    /\ \E child \in ChildrenToDelete(out.out_dir) :
           out' = [out EXCEPT
                     !.out_dir = [n \in DOMAIN out.out_dir \ {child} |->
                                     out.out_dir[n]]]
    /\ UNCHANGED <<pc, shape, tie_rule, inp>>

MainCleanDone ==
    /\ pc = "clean"
    /\ ChildrenToDelete(out.out_dir) = {}
    /\ pc' = "move"
    /\ UNCHANGED <<shape, tie_rule, inp, out>>

\* move_tree_contents: shutil.move of every staged file into the output
\* directory, one after the other in the order of iterdir().
MainMoveFile ==
    /\ pc = "move"
    /\ \E child \in out.stage_dir :
           out' = [out EXCEPT
                     !.stage_dir = @ \ {child},
                     !.out_dir = [n \in DOMAIN out.out_dir \cup {child} |->
                                     IF n = child THEN 1 ELSE out.out_dir[n]]]
    /\ UNCHANGED <<pc, shape, tie_rule, inp>>

\* main, lines 224-265: the staging directory is removed, the summary is
\* printed and main returns 0.
MainReturn ==
    /\ pc = "move"
    /\ out.stage_dir = {}
    /\ Exit(0)

\* A write, an unlink or a move raises OSError (disk full, permissions, a
\* signal): the finally clause removes the staging directory and the
\* exception leaves main.
MainStepRaises ==
    /\ pc \in {"stage", "clean", "move"}
    /\ Exit(1)

\* The next run of main on the same output directory.
MainNextRun ==
    /\ pc = "exit"
    /\ \E args \in CliArgs : inp' = args
    /\ out' = RunStart(out.exists, out.out_dir)
    /\ pc' = "parse_seed"
    /\ UNCHANGED <<shape, tie_rule>>

NextCli ==
    \/ MainParseSeed
    \/ MainGenerate
    \/ MainResolveOutputDir
    \/ MainStageFile
    \/ MainCleanChild
    \/ MainCleanDone
    \/ MainMoveFile
    \/ MainReturn
    \/ MainStepRaises
    \/ MainNextRun

SpecCli == InitCli /\ [][NextCli]_vars

\* Whether a text has a character that is not an ASCII letter.
HasNonLetter(text) ==
    \E i \in 1 .. Len(text) : ~(IsLower(text[i]) \/ IsUpper(text[i]))

\* How a run ends that parse_seed rejected: status 2, the message with
\* "Examples:" and "MistyForge", nothing generated, nothing written.
RejectedAsUserError ==
    /\ pc = "exit"
    /\ out.exit_code = 2
    /\ ~out.parsed.ok
    /\ out.parsed.examples_label = "Examples:"
    /\ \E i \in 1 .. Len(out.parsed.examples) : out.parsed.examples[i] = "MistyForge"
    /\ ~out.generated
    /\ ~out.staging /\ out.stage_dir = {}
    /\ out.out_dir = out.previous

\* C15 (amended): a seed that, stripped of leading and trailing white space,
\* still has a character that is not an ASCII letter is rejected with the
\* examples in the message and the CLI ends with status 2 before any
\* generation or file write.
C15_NonLetterRejected ==
    (pc # "parse_seed" /\ HasNonLetter(Strip(inp.seed))) => RejectedAsUserError

\* C15 as claimed: any character that is not an ASCII letter, white space
\* at the ends included.
C15_AsClaimed ==
    (pc # "parse_seed" /\ HasNonLetter(inp.seed)) => RejectedAsUserError

C15_Witness ==
    /\ pc = "exit"
    /\ inp.seed = <<"m","i","s","t","y","-","f","o","r","g","e">>
    /\ out.exit_code = 2
    /\ DOMAIN out.previous # {}

\* C16: a run with a non-positive --w, --h or --mpp, or whose output
\* directory is non-empty while --overwrite is not set, ends with status 2.
C16_UserErrorsExit2 ==
    (/\ pc = "exit"
     /\ \/ inp.w <= 0 \/ inp.h <= 0 \/ inp.mpp <= 0
        \/ DOMAIN out.previous # {} /\ ~inp.overwrite)
    => out.exit_code = 2

\* C17: with --overwrite the output directory holds, in every state of the
\* run, the complete file set it held when the run began or the complete
\* file set of this run.
C17_AtomicReplace ==
    inp.overwrite =>
        \/ out.out_dir = out.previous
        \/ out.out_dir = [n \in StagedNames(inp.json) |-> 1]

\* C18: after a successful run with --overwrite the output directory holds
\* exactly the files this run staged, each as this run wrote it.
C18_OnlyFilesOfLastRun ==
    (pc = "exit" /\ out.exit_code = 0 /\ inp.overwrite)
    => out.out_dir = [n \in StagedNames(inp.json) |-> 1]

C18_Witness ==
    /\ pc = "exit" /\ out.exit_code = 0 /\ inp.overwrite /\ ~inp.json
    /\ {"debug_plates.png", "meta.json", "height.npy"} \subseteq DOMAIN out.previous

\* C19: after a successful run with JSON output, deterministic_meta.json
\* has none of generated_at_utc, generation_seconds, incision_seconds, and
\* meta.json has every key of deterministic_meta.json and those three, with
\* generation_seconds >= 0.
RuntimeKeys == {"generated_at_utc", "generation_seconds", "incision_seconds"}
C19_RuntimeKeysOnlyInMeta ==
    (pc = "exit" /\ out.exit_code = 0 /\ inp.json)
    => /\ {"deterministic_meta.json", "meta.json"} \subseteq DOMAIN out.out_dir
       /\ out.out_dir["deterministic_meta.json"] = 1
       /\ out.out_dir["meta.json"] = 1
       /\ out.deterministic_meta \cap RuntimeKeys = {}
       /\ out.deterministic_meta \cup RuntimeKeys \subseteq out.meta
       /\ out.generation_seconds >= 0

C19_Witness ==
    /\ pc = "exit" /\ out.exit_code = 0 /\ inp.json
    /\ out.generation_seconds > 0
    /\ "meta.json" \in DOMAIN out.previous

----------------------------------------------------------------------------
(* The visiting orders of the order-dependent hydrology passes.            *)

\* _flow_connected_support: order = np.argsort(flow_accum_raw.ravel())[::-1]
ClosureOrder(flow_accum_raw, rule) == Reversed(Argsort(flow_accum_raw, rule))
\* enforce_downhill_river_profile: order = np.argsort(flow_accum_raw.ravel())
EnforceOrder(flow_accum_raw, rule) == Argsort(flow_accum_raw, rule)

\* The sort keys of a raster of three cells: elevations or accumulations
\* 0 .. MaxSortKey, so that two or three cells can have equal keys.
MaxSortKey == 2

InitOrder ==
    /\ pc = "input"
    /\ shape = RiverShape
    /\ tie_rule \in TieRules
    /\ inp \in [keys : [CellsOf(RiverShape) -> 0 .. MaxSortKey]]
    /\ out = [call |-> "none"]

\* The accumulation loop of compute_flow_d8 has run over its order.
VisitAccumulation ==
    /\ pc = "input"
    /\ out' = [call |-> "compute_flow_d8", order |-> AccumOrder(inp.keys, tie_rule)]
    /\ pc' = "visited"
    /\ UNCHANGED <<shape, tie_rule, inp>>

\* The labelling loop of _analyze_drainage_state has run over its order.
VisitLabelling ==
    /\ pc = "input"
    /\ out' = [call |-> "_analyze_drainage_state", order |-> LabelOrder(inp.keys, tie_rule)]
    /\ pc' = "visited"
    /\ UNCHANGED <<shape, tie_rule, inp>>

\* The closure loop of _flow_connected_support has run over its order.
VisitClosure ==
    /\ pc = "input"
    /\ out' = [call |-> "_flow_connected_support", order |-> ClosureOrder(inp.keys, tie_rule)]
    /\ pc' = "visited"
    /\ UNCHANGED <<shape, tie_rule, inp>>

\* The loop of enforce_downhill_river_profile has run over its order.
VisitEnforcement ==
    /\ pc = "input"
    /\ out' = [call |-> "enforce_downhill_river_profile", order |-> EnforceOrder(inp.keys, tie_rule)]
    /\ pc' = "visited"
    /\ UNCHANGED <<shape, tie_rule, inp>>

NextOrder ==
    \/ VisitAccumulation
    \/ VisitLabelling
    \/ VisitClosure
    \/ VisitEnforcement

SpecOrder == InitOrder /\ [][NextOrder]_vars

\* C20: each of the four passes visits cells whose sort keys are equal in
\* ascending row-major flat index.
C20_TiesByFlatIndex ==
    pc = "visited" =>
        \A i, j \in 1 .. Len(out.order) :
            (i < j /\ inp.keys[out.order[i]] = inp.keys[out.order[j]])
            => out.order[i] < out.order[j]

\* The same for the two ascending passes under a sort that keeps equal keys
\* in index order.
TiesByFlatIndexWhenStable ==
    (/\ pc = "visited"
     /\ tie_rule = "low_index_first"
     /\ out.call \in {"_analyze_drainage_state", "enforce_downhill_river_profile"})
    => \A i, j \in 1 .. Len(out.order) :
           (i < j /\ inp.keys[out.order[i]] = inp.keys[out.order[j]])
           => out.order[i] < out.order[j]

\* The two descending passes under such a sort visit equal keys in
\* descending flat index.
DescendingPassesReverseTies ==
    (/\ pc = "visited"
     /\ tie_rule = "low_index_first"
     /\ out.call \in {"compute_flow_d8", "_flow_connected_support"})
    => \A i, j \in 1 .. Len(out.order) :
           (i < j /\ inp.keys[out.order[i]] = inp.keys[out.order[j]])
           => out.order[i] > out.order[j]

----------------------------------------------------------------------------
(* Array ownership across the stages: run_hydrology,                       *)
(* apply_hierarchical_incision and enforce_downhill_river_profile.         *)
(* A numpy array is a buffer of a heap and a name is a reference to one;   *)
(* ravel() and reshape() of a contiguous array are views, that is, the     *)
(* same reference.  A stage's writes go to the buffer its name refers to.  *)

\* np.zeros_like, np.clip, arithmetic, ...: a new buffer; its reference is
\* Len of the heap returned.
Alloc(heap, dtype, data) == Append(heap, [dtype |-> dtype, data |-> data])

AliasAlways(heap, ref, dtype, copy) == [heap |-> heap, ref |-> ref]

\* ndarray.astype(dtype, copy=copy): the array itself when copy is False
\* and the dtype already matches, a new buffer otherwise.
astype(heap, ref, dtype, copy) ==
    IF copy \/ heap[ref].dtype # dtype
    THEN [heap |-> Alloc(heap, dtype, heap[ref].data), ref |-> Len(heap) + 1]
    ELSE [heap |-> heap, ref |-> ref]

\* arr[...] = data, through the reference or a view of it
Store(heap, ref, data) == [heap EXCEPT ![ref].data = data]

\* A stage as the list of its statements that make or write arrays:
\*   [op |-> "astype", to, of, dtype, copy]   to = of.astype(dtype, copy=copy)
\*   [op |-> "new", to, dtype, data]          to = a fresh array
\*   [op |-> "bind", to, of]                  to = of, of.ravel(), an argument
\*   [op |-> "store", to, data]               to[...] = data
\* env.heap is the heap and env.at the buffer each name refers to.
Exec(stmt, env) ==
    CASE stmt.op = "astype" ->
           Value({[heap |-> r.heap, at |-> (stmt.to :> r.ref) @@ env.at] :
                  r \in {astype(env.heap, env.at[stmt.of], stmt.dtype, stmt.copy)}})
      [] stmt.op = "new" ->
           [heap |-> Alloc(env.heap, stmt.dtype, stmt.data),
            at   |-> (stmt.to :> (Len(env.heap) + 1)) @@ env.at]
      [] stmt.op = "bind" ->
           [heap |-> env.heap, at |-> (stmt.to :> env.at[stmt.of]) @@ env.at]
      [] stmt.op = "store" ->
           [heap |-> Store(env.heap, env.at[stmt.to], stmt.data), at |-> env.at]

RECURSIVE Run(_, _, _)
Run(prog, k, env) ==
    IF k > Len(prog) THEN env
    ELSE Value({Run(prog, k + 1, next) : next \in {Exec(prog[k], env)}})

\* enforce_downhill_river_profile, r being the values it computes:
\* adjusted_mask and h are copies, h_flat is a view of h, and both results
\* are copied once more.
FrameEnforceDownhill(r) ==
    << [op |-> "astype", to |-> "adjusted_mask", of |-> "river_mask",
        dtype |-> "float32", copy |-> TRUE],
       [op |-> "astype", to |-> "h", of |-> "height", dtype |-> "float32", copy |-> TRUE],
       [op |-> "bind", to |-> "h_flat", of |-> "h"],
       [op |-> "store", to |-> "h_flat", data |-> r.h2],
       [op |-> "astype", to |-> "h2", of |-> "h_flat", dtype |-> "float32", copy |-> TRUE],
       [op |-> "store", to |-> "adjusted_mask", data |-> r.adjusted_mask],
       [op |-> "astype", to |-> "adjusted_mask", of |-> "adjusted_mask",
        dtype |-> "float32", copy |-> TRUE] >>

\* _enforce_noninversion, capped being the depths it computes: capped is a
\* copy of incision_depth and is written; base may be base_height itself
\* and is only read.
FrameEnforceNoninversion(capped) ==
    << [op |-> "astype", to |-> "capped", of |-> "incision_depth",
        dtype |-> "float32", copy |-> TRUE],
       [op |-> "astype", to |-> "base", of |-> "base_height",
        dtype |-> "float32", copy |-> FALSE],
       [op |-> "store", to |-> "capped", data |-> capped] >>

\* apply_hierarchical_incision, depth0 being the uncapped depth and r the
\* values it computes.
FrameIncision(depth0, r) ==
    << [op |-> "astype", to |-> "land", of |-> "land_mask", dtype |-> "bool", copy |-> TRUE],
       [op |-> "astype", to |-> "accum_cells", of |-> "flow_accum",
        dtype |-> "float32", copy |-> TRUE],
       [op |-> "new", to |-> "incision_depth", dtype |-> "float32", data |-> depth0],
       [op |-> "astype", to |-> "base_height", of |-> "h_hydro_post",
        dtype |-> "float32", copy |-> TRUE] >>
    \o FrameEnforceNoninversion(r.incision_depth_m)
    \o << [op |-> "bind", to |-> "incision_depth", of |-> "capped"],
          [op |-> "astype", to |-> "h_geomorph", of |-> "h_hydro_post",
           dtype |-> "float32", copy |-> TRUE],
          [op |-> "store", to |-> "h_geomorph", data |-> r.h_geomorph],
          [op |-> "astype", to |-> "h_geomorph", of |-> "h_geomorph",
           dtype |-> "float32", copy |-> TRUE] >>

\* run_hydrology.  The rasters the smoothing, the fill, the meanders and
\* the capture compute enter as the one raster w, and the river mask of
\* extract_rivers as river; post is the drainage state of w, lake the lake
\* mask and r what enforce_downhill_river_profile computes from them.
FrameRunHydrology(w, river, post, lake, r) ==
    << [op |-> "astype", to |-> "h_base", of |-> "h_tectonic",
        dtype |-> "float32", copy |-> TRUE],
       [op |-> "new", to |-> "h_routing_base", dtype |-> "float32", data |-> w],
       [op |-> "astype", to |-> "filled", of |-> "h_routing_base",
        dtype |-> "float32", copy |-> TRUE],
       [op |-> "store", to |-> "filled", data |-> w],
       [op |-> "astype", to |-> "h_routing_filled", of |-> "filled",
        dtype |-> "float32", copy |-> TRUE],
       [op |-> "store", to |-> "h_routing_filled", data |-> w],
       [op |-> "astype", to |-> "h_hydro", of |-> "h_routing_filled",
        dtype |-> "float32", copy |-> TRUE],
       [op |-> "store", to |-> "h_hydro", data |-> w],
       [op |-> "new", to |-> "flow_dir", dtype |-> "int32", data |-> post.flow_dir],
       [op |-> "new", to |-> "flow_accum", dtype |-> "float32", data |-> post.flow_accum],
       [op |-> "astype", to |-> "flow_accum_raw", of |-> "flow_accum",
        dtype |-> "float32", copy |-> FALSE],
       [op |-> "new", to |-> "river_mask", dtype |-> "float32", data |-> river],
       [op |-> "new", to |-> "lake_mask", dtype |-> "bool", data |-> lake],
       [op |-> "astype", to |-> "h_lake_adjusted", of |-> "h_hydro",
        dtype |-> "float32", copy |-> TRUE],
       [op |-> "store", to |-> "h_lake_adjusted", data |-> w],
       [op |-> "bind", to |-> "height", of |-> "h_lake_adjusted"] >>
    \o FrameEnforceDownhill(r)
    \o << [op |-> "bind", to |-> "river_mask", of |-> "adjusted_mask"],
          [op |-> "bind", to |-> "h_lake_adjusted", of |-> "h2"],
          [op |-> "astype", to |-> "h_eroded", of |-> "h_lake_adjusted",
           dtype |-> "float32", copy |-> TRUE],
          [op |-> "astype", to |-> "h_drain", of |-> "h_hydro",
           dtype |-> "float32", copy |-> TRUE],
          [op |-> "astype", to |-> "shaped", of |-> "h_lake_adjusted",
           dtype |-> "float32", copy |-> TRUE],
          [op |-> "store", to |-> "shaped", data |-> w] >>

FrameDtypes == {"float32", "float64"}
FrameHeights == [CellsOf(RiverShape) -> {0, 150}]
FrameMasks == [CellsOf(RiverShape) -> BOOLEAN]

\* The arguments of one call of one of the three stages, each argument a
\* buffer of the caller's heap; the height raster is float32 (what the
\* pipeline passes) or float64.
InitFrame ==
    /\ pc = "input"
    /\ shape = RiverShape
    /\ tie_rule = "low_index_first"
    /\ inp \in
         {[stage |-> "run_hydrology", at |-> [h_tectonic |-> 1, land_mask |-> 2],
           heap |-> <<[dtype |-> d, data |-> h], [dtype |-> "bool", data |-> l]>>] :
              d \in FrameDtypes, h \in FrameHeights, l \in FrameMasks}
         \cup
         {[stage |-> "apply_hierarchical_incision",
           at |-> [h_hydro_post |-> 1, land_mask |-> 2, flow_dir |-> 3, flow_accum |-> 4],
           heap |-> <<[dtype |-> d, data |-> h], [dtype |-> "bool", data |-> l],
                      [dtype |-> "int32", data |-> f],
                      [dtype |-> "float32", data |-> a]>>] :
              d \in FrameDtypes, h \in FrameHeights, l \in FrameMasks,
              f \in [CellsOf(RiverShape) -> GeomorphDirs],
              a \in [CellsOf(RiverShape) -> {1}]}
         \cup
         {a \in {[stage |-> "enforce_downhill_river_profile",
                   at |-> [height |-> 1, lake_mask |-> 2, flow_dir |-> 3,
                           flow_accum_raw |-> 4, river_mask |-> 5],
                   heap |-> <<[dtype |-> d, data |-> h], [dtype |-> "bool", data |-> l],
                              [dtype |-> "int32", data |-> f],
                              [dtype |-> "float32", data |-> q],
                              [dtype |-> "float32", data |-> r]>>] :
                      d \in FrameDtypes, h \in FrameHeights,
                      l \in {m \in FrameMasks : ~m[0] /\ ~m[2]},
                      f \in [CellsOf(RiverShape) -> RiverDirs],
                      q \in {[c \in CellsOf(RiverShape) |-> 1],
                             [c \in CellsOf(RiverShape) |-> 3 - c]},
                      r \in [CellsOf(RiverShape) -> RiverWidths]} :
              \A c \in CellsOf(RiverShape) :
                  a.heap[5].data[c] = 0 => a.heap[3].data[c] = -1}
    /\ out = [call |-> "none"]

\* The array a name of the call refers to.
Arg(name) == inp.heap[inp.at[name]].data

CallFrameRunHydrology ==
    /\ pc = "input"
    /\ inp.stage = "run_hydrology"
    /\ \E w \in FrameHeights : \E river \in [Cells -> RiverWidths] :
       \E post \in {_analyze_drainage_state(w, Arg("land_mask"), tie_rule)} :
       \E lake \in {[c \in Cells |-> post.sink_id_flat[c] >= 0 /\ Arg("land_mask")[c]]} :
       \E r \in {enforce_downhill_river_profile(w, post.flow_dir, post.flow_accum,
                                                river, lake, tie_rule)} :
          out' = [call |-> inp.stage] @@
                 Run(FrameRunHydrology(w, river, post, lake, r), 1,
                     [heap |-> inp.heap, at |-> inp.at])
    /\ pc' = "returned"
    /\ UNCHANGED <<shape, tie_rule, inp>>

\* geomorph_max_depth_m = 4 and a strength inside the clip; blurred is the
\* incision_blurred raster.
CallFrameIncision ==
    /\ pc = "input"
    /\ inp.stage = "apply_hierarchical_incision"
    /\ \E blurred \in {b \in [Cells -> {0, 1}] :
                          \A c \in Cells : ~Arg("land_mask")[c] => b[c] = 0} :
       \E r \in {apply_hierarchical_incision(Arg("h_hydro_post"), blurred,
                     Arg("flow_dir"), Arg("land_mask"), 4, 1)} :
          out' = [call |-> inp.stage] @@
                 Run(FrameIncision([c \in Cells |-> Min(blurred[c] * 4, 4)], r), 1,
                     [heap |-> inp.heap, at |-> inp.at])
    /\ pc' = "returned"
    /\ UNCHANGED <<shape, tie_rule, inp>>

CallFrameEnforceDownhill ==
    /\ pc = "input"
    /\ inp.stage = "enforce_downhill_river_profile"
    /\ \E r \in {enforce_downhill_river_profile(Arg("height"), Arg("flow_dir"),
                     Arg("flow_accum_raw"), Arg("river_mask"), Arg("lake_mask"),
                     tie_rule)} :
          out' = [call |-> inp.stage] @@
                 Run(FrameEnforceDownhill(r), 1, [heap |-> inp.heap, at |-> inp.at])
    /\ pc' = "returned"
    /\ UNCHANGED <<shape, tie_rule, inp>>

NextFrame == CallFrameRunHydrology \/ CallFrameIncision \/ CallFrameEnforceDownhill

SpecFrame == InitFrame /\ [][NextFrame]_vars

\* C21: no stage writes into an array it was given: when run_hydrology,
\* apply_hierarchical_incision or enforce_downhill_river_profile has
\* returned, every buffer of the caller's heap (h_tectonic and land_mask;
\* h_hydro, flow_accum and flow_dir; height and river_mask among them)
\* holds what it held at the call, and the heap has only grown.
C21_InputsUnchanged ==
    pc = "returned" =>
        /\ Len(out.heap) >= Len(inp.heap)
        /\ \A r \in 1 .. Len(inp.heap) : out.heap[r] = inp.heap[r]

\* enforce_downhill_river_profile was given a float32 height and a river
\* mask, and returned a lowered height and a cleared mask cell.
C21_Witness ==
    /\ pc = "returned"
    /\ inp.stage = "enforce_downhill_river_profile"
    /\ inp.heap[inp.at["height"]].dtype = "float32"
    /\ out.heap[out.at["h2"]].data # Arg("height")
    /\ out.heap[out.at["adjusted_mask"]].data # Arg("river_mask")

----------------------------------------------------------------------------
(* _enforce_noninversion on the flow directions of the hydrology stage:    *)
(* generate_heightfield passes hydro.h_hydro and hydro.flow_dir, the       *)
(* routing compute_flow_d8 found on that raster with the ocean masked.     *)
(* Heights and depths in units of 1e-3 m.                                  *)

NoninversionHeights == {0, 3, 6}
NoninversionDepths == {0, 4}

\* The uncapped incision depth is not negative and is 0 off the land
\* ("incision_depth *= land").
InitNoninversion ==
    /\ pc = "input"
    /\ shape = GeomorphShape
    /\ tie_rule = "low_index_first"
    /\ inp \in {a \in [base_height    : [CellsOf(GeomorphShape) -> NoninversionHeights],
                        incision_depth : [CellsOf(GeomorphShape) -> NoninversionDepths],
                        land_mask      : [CellsOf(GeomorphShape) -> BOOLEAN]] :
                    \A c \in CellsOf(GeomorphShape) :
                        ~a.land_mask[c] => a.incision_depth[c] = 0}
    /\ out = [call |-> "none"]

\* post_state.flow_dir of run_hydrology
CallRouteForIncision ==
    /\ pc = "input"
    /\ out' = [call |-> "compute_flow_d8",
               flow_dir |-> compute_flow_d8(inp.base_height,
                               [c \in Cells |-> ~inp.land_mask[c]],
                               tie_rule).flow_dir]
    /\ pc' = "routed"
    /\ UNCHANGED <<shape, tie_rule, inp>>

CallEnforceNoninversion ==
    /\ pc = "routed"
    /\ out' = [call |-> "_enforce_noninversion",
               flow_dir |-> out.flow_dir,
               capped |-> _enforce_noninversion(inp.base_height,
                              inp.incision_depth, out.flow_dir, inp.land_mask)]
    /\ pc' = "capped"
    /\ UNCHANGED <<shape, tie_rule, inp>>

NextNoninversion == CallRouteForIncision \/ CallEnforceNoninversion

SpecNoninversion == InitNoninversion /\ [][NextNoninversion]_vars

\* The D8 destination of c: what _flow_dest_from_dir gives for the routing.
IncisionDest(c) == _flow_dest_from_dir(out.flow_dir)[c]

\* The cell _enforce_noninversion reads as "down" for c, -1 off the grid.
IncisionCellRead(c) ==
    IF out.flow_dir[c] \in DirIndices
    THEN GeomorphShiftSourceOfDir[shape][out.flow_dir[c]][c]
    ELSE -1

\* h(c) - depth(c) >= h(n) - depth(n) + eps, after the caps
NotInverted(c, n) ==
    inp.base_height[c] - out.capped[c]
        >= inp.base_height[n] - out.capped[n] + NoninversionEps

\* C22: after _enforce_noninversion every land cell c with flow_dir >= 0
\* whose D8 destination was at least eps below it before incision is still
\* at least eps above the destination after incision.
C22_NoInversionAlongRouting ==
    pc = "capped" =>
        \A c \in Cells :
            (/\ inp.land_mask[c] /\ out.flow_dir[c] >= 0 /\ IncisionDest(c) >= 0
             /\ inp.base_height[c] >= inp.base_height[IncisionDest(c)] + NoninversionEps)
                => NotInverted(c, IncisionDest(c))

\* The same against the cell the guard reads instead of the destination.
NoInversionAgainstCellRead ==
    pc = "capped" =>
        \A c \in Cells :
            (/\ inp.land_mask[c] /\ out.flow_dir[c] >= 0 /\ IncisionCellRead(c) >= 0
             /\ inp.base_height[c] >= inp.base_height[IncisionCellRead(c)] + NoninversionEps)
                => NotInverted(c, IncisionCellRead(c))

\* C23: hydrology and geomorph agree on flow_dir: for every cell and every
\* direction index d, the cell _enforce_noninversion reads as downstream is
\* the destination compute_flow_d8 and _flow_dest_from_dir assign to d.
C23_SameDownstreamCell ==
    \A d \in DirIndices : \A c \in Cells :
        GeomorphShiftSourceOfDir[shape][d][c] = _shift_index_grid(d, c)

\* The two stages agree at least on the cells that route nowhere.
UnroutedCellsAgree ==
    pc = "capped" =>
        \A c \in Cells : out.flow_dir[c] < 0 => IncisionCellRead(c) = IncisionDest(c)

----------------------------------------------------------------------------
(* Cross-basin capture: _capture_profile and the selection of candidates   *)
(* in _integrate_drainage.                                                 *)
(* Elevations in units of 1/2400 m: 0.005 m is 12, 0.01 m is 24 and        *)
(* 0.02 m is 48.  The elevations drawn are multiples of 6, so every ramp   *)
(* value of a path of up to 4 cells is a whole number of units.            *)

ProfileSlack == 12
ProfileMinDrop == 48

\* np.linspace(start, stop, n), n >= 2, as a sequence
linspace(start, stop, n) ==
    [i \in 1 .. n |-> start + ((i - 1) * (stop - start)) \div (n - 1)]

NoAccumulate(v) == v

\* np.minimum.accumulate
RECURSIVE minimum_accumulate(_)
minimum_accumulate(v) ==
    IF Len(v) <= 1 THEN v
    ELSE LET head == minimum_accumulate(SubSeq(v, 1, Len(v) - 1))
         IN  Append(head, Min(head[Len(head)], v[Len(v)]))

\* target_end of _capture_profile
ProfileTargetEnd(start, end) ==
    IF end < start - ProfileSlack THEN end ELSE start - ProfileMinDrop

_capture_profile(vals) ==
    IF Len(vals) < 2 THEN vals
    ELSE LET profile == linspace(vals[1],
                            ProfileTargetEnd(vals[1], vals[Len(vals)]), Len(vals))
             carved  == [i \in 1 .. Len(vals) |-> Min(vals[i], profile[i])]
         IN  minimum_accumulate(carved)

RoundHalfUp(num, den) == (2 * num + den) \div (2 * den)

\* round(x) of Python for x = num / den >= 0: to the nearest integer, a
\* half to the even one.  capture_fraction is drawn in eighths and the
\* candidate count is small, so num / den is the exact product.
RoundHalfEven(num, den) ==
    LET q == num \div den
        r == num % den
    IN  IF 2 * r < den THEN q
        ELSE IF 2 * r > den THEN q + 1
        ELSE IF q % 2 = 0 THEN q ELSE q + 1

FractionDen == 8

\* k of _integrate_drainage for capture_fraction = f8 / 8 > 0 and n
\* candidates.
SelectedCount(f8, n) ==
    LET k0 == RoundHalfEven(f8 * n, FractionDen)
        k1 == IF f8 > 0 /\ k0 = 0 THEN 1 ELSE k0
    IN  Min(k1, n)

\* candidates.sort(key=lambda item: (item[0], item[1])): a stable sort on
\* (required_cut, -basin_size); a candidate is <<required_cut, -basin_size,
\* basin>>.
CandidateBefore(a, b) == a[1] < b[1] \/ (a[1] = b[1] /\ a[2] < b[2])

RECURSIVE SortCandidates(_)
SortCandidates(cands) ==
    IF Len(cands) <= 1 THEN cands
    ELSE LET head == SortCandidates(SubSeq(cands, 1, Len(cands) - 1))
             x    == cands[Len(cands)]
             pos  == Cardinality({i \in 1 .. Len(head) : ~CandidateBefore(x, head[i])})
         IN  SubSeq(head, 1, pos) \o <<x>> \o SubSeq(head, pos + 1, Len(head))

\* candidates[:k] after the sort
SelectCandidates(cands, f8) ==
    SubSeq(SortCandidates(cands), 1, SelectedCount(f8, Len(cands)))

CaptureElevs == {0, 12, 42, 48, 60}
MaxPathLen == 4
MaxCandidates == 4

\* Up to MaxCandidates candidates, basins 1 .. n in group order, each with a
\* required cut of 0 or 1 and 8 or 9 pixels.
CandidateLists ==
    UNION {{[i \in 1 .. n |-> <<cut[i], size[i], i>>] :
               cut \in [1 .. n -> {0, 1}], size \in [1 .. n -> {-9, -8}]} :
           n \in 1 .. MaxCandidates}

InitCapture ==
    /\ pc = "input"
    /\ shape = RiverShape
    /\ tie_rule = "low_index_first"
    /\ inp \in {[call |-> "_capture_profile", vals |-> v] :
                   v \in UNION {[1 .. n -> CaptureElevs] : n \in 2 .. MaxPathLen}}
               \cup
               {[call |-> "select", candidates |-> c, fraction8 |-> f] :
                   c \in CandidateLists, f \in 1 .. FractionDen}
    /\ out = [call |-> "none"]

CallCaptureProfile ==
    /\ pc = "input"
    /\ inp.call = "_capture_profile"
    /\ out' = [call |-> inp.call, carved |-> _capture_profile(inp.vals)]
    /\ pc' = "carved"
    /\ UNCHANGED <<shape, tie_rule, inp>>

CallSelectCandidates ==
    /\ pc = "input"
    /\ inp.call = "select"
    /\ out' = [call |-> inp.call,
               selected |-> SelectCandidates(inp.candidates, inp.fraction8)]
    /\ pc' = "selected"
    /\ UNCHANGED <<shape, tie_rule, inp>>

NextCapture == CallCaptureProfile \/ CallSelectCandidates

SpecCapture == InitCapture /\ [][NextCapture]_vars

\* The running minimum of min(original, ramp) at cell i of the path, for a
\* ramp from the source elevation down to ramp_end.
RampedMinimum(vals, ramp_end, i) ==
    LET n == Len(vals)
        at(j) == Min(vals[j], vals[1] + ((j - 1) * (ramp_end - vals[1])) \div (n - 1))
    IN  CHOOSE m \in {at(j) : j \in 1 .. i} : \A j \in 1 .. i : m <= at(j)

ProfileMonotone ==
    /\ \A i \in 1 .. Len(out.carved) - 1 : out.carved[i + 1] <= out.carved[i]
    /\ \A i \in 1 .. Len(out.carved) : out.carved[i] <= inp.vals[i]
    /\ Len(out.carved) = Len(inp.vals)

\* C25 (amended): for a path of at least 2 cells _capture_profile returns
\* the running minimum of min(original, ramp), the ramp descending from the
\* source elevation to the target elevation when that is more than 0.005
\* below the source, and to source - 0.02 otherwise; the result is monotone
\* non-increasing and nowhere above the original values.
C25_ProfileIsRampedMinimum ==
    pc = "carved" =>
        /\ ProfileMonotone
        /\ \A i \in 1 .. Len(inp.vals) :
              out.carved[i] =
                  RampedMinimum(inp.vals,
                      IF inp.vals[Len(inp.vals)] < inp.vals[1] - ProfileSlack
                      THEN inp.vals[Len(inp.vals)]
                      ELSE inp.vals[1] - ProfileMinDrop, i)

\* C25 (as claimed): the ramp descends to min(target_elev, source - 0.02).
C25_AsClaimed ==
    pc = "carved" =>
        /\ ProfileMonotone
        /\ \A i \in 1 .. Len(inp.vals) :
              out.carved[i] =
                  RampedMinimum(inp.vals,
                      Min(inp.vals[Len(inp.vals)], inp.vals[1] - ProfileMinDrop), i)

\* A path of 4 cells whose target is more than 0.02 below the source, with
\* a cell that is held below its original value and below the ramp by the
\* running minimum alone.
C25_Witness ==
    /\ pc = "carved"
    /\ Len(inp.vals) = 4
    /\ inp.vals[4] < inp.vals[1] - ProfileMinDrop
    /\ \E i \in 2 .. 4 :
          /\ out.carved[i] < inp.vals[i]
          /\ out.carved[i] = out.carved[i - 1]
          /\ out.carved[i] < linspace(inp.vals[1], inp.vals[4], 4)[i]

\* C26 (amended): with n >= 1 candidates and capture_fraction f > 0 the
\* number of paths selected is f * n rounded to the nearest integer (a half
\* to the even one), but at least 1 and at most n; they are the first of
\* the candidates in (required_cut, -basin_size) order.
C26_RoundedCount ==
    pc = "selected" =>
        LET n == Len(inp.candidates)
            k == Len(out.selected)
            fn == inp.fraction8 * n
            kd == FractionDen * k
        IN  /\ k >= 1 /\ k <= n
            /\ 2 * fn >= FractionDen =>
                  /\ 2 * (kd - fn) <= FractionDen
                  /\ 2 * (fn - kd) <= FractionDen
                  /\ (2 * Abs(kd - fn) = FractionDen /\ 2 * fn > FractionDen)
                        => k % 2 = 0
            /\ 2 * fn <= FractionDen => k = 1
            /\ \A i \in 1 .. k : \A c \in 1 .. n :
                  (\A j \in 1 .. k : inp.candidates[c] # out.selected[j])
                      => ~CandidateBefore(inp.candidates[c], out.selected[i])

\* C26 (as claimed): the number selected is ceil(capture_fraction * n).
C26_CeilCount ==
    pc = "selected" =>
        Len(out.selected) =
            (inp.fraction8 * Len(inp.candidates) + FractionDen - 1) \div FractionDen

\* Four candidates and capture_fraction 5/8: 2.5 rounds to 2, and the
\* candidate with the smaller cut is kept before one listed earlier.
C26_Witness ==
    /\ pc = "selected"
    /\ Len(inp.candidates) = 4 /\ inp.fraction8 = 5
    /\ Len(out.selected) = 2
    /\ out.selected[1][3] > out.selected[2][3]

----------------------------------------------------------------------------
(* _integrate_drainage: the two capture iterations on a raster of one row. *)
(* Elevations in units of 1/2400 m as above; 1 m is 2400.                  *)

\* _line_path_flat: np.round of the two linspace of _line_indices
_line_path_flat(src_flat, dst_flat) ==
    IF src_flat = dst_flat THEN <<src_flat>>
    ELSE LET y0 == Row(src_flat)
             x0 == Col(src_flat)
             y1 == Row(dst_flat)
             x1 == Col(dst_flat)
             steps == Max(Abs(y1 - y0), Abs(x1 - x0)) + 1
         IN  [i \in 1 .. steps |->
                 FlatIndex(RoundHalfEven(y0 * (steps - 1) + (i - 1) * (y1 - y0), steps - 1),
                           RoundHalfEven(x0 * (steps - 1) + (i - 1) * (x1 - x0), steps - 1))]

\* height.ravel()[path_flat]
PathVals(h, path) == [i \in 1 .. Len(path) |-> h[path[i]]]

\* np.max(vals - carved)
MaxCut(vals) ==
    LET carved == _capture_profile(vals)
    IN  CHOOSE m \in {vals[i] - carved[i] : i \in 1 .. Len(vals)} :
            \A i \in 1 .. Len(vals) : m >= vals[i] - carved[i]

_estimate_capture_cut(h, path) == IF Len(path) < 2 THEN 0 ELSE MaxCut(PathVals(h, path))

\* Whether _carve_capture_path returns without writing.
CarveSkipped(h, path, max_sill) == Len(path) < 2 \/ MaxCut(PathVals(h, path)) > max_sill

_carve_capture_path(h, path, max_sill) ==
    IF CarveSkipped(h, path, max_sill) THEN h
    ELSE LET carved == _capture_profile(PathVals(h, path))
         IN  [c \in Cells |->
                 IF \E i \in 1 .. Len(path) : path[i] = c
                 THEN carved[CHOOSE i \in 1 .. Len(path) : path[i] = c]
                 ELSE h[c]]

\* _pick_basin_sink: the first of the lowest cells of the basin
_pick_basin_sink(h, basin_pixels) ==
    CHOOSE s \in basin_pixels :
        \A c \in basin_pixels : h[s] < h[c] \/ (h[s] = h[c] /\ s <= c)

\* exo_idx: the land cells that reach the ocean
ExoCells(state, land) == {c \in Cells : land[c] /\ state.outlet_raw_flat[c] >= 0}

\* exo_basin_size of an exorheic cell
ExoBasinSize(state, land, c) ==
    Cardinality({e \in ExoCells(state, land) :
                    state.outlet_raw_flat[e] = state.outlet_raw_flat[c]})

\* exo_priority = _normalize01(log1p(exo_basin_size)): 0 everywhere when all
\* sizes are equal, else 0 at the smallest and 1 at the largest size.  The
\* rasters drawn have at most two outlets, so no size lies in between.
exo_priority(state, land, c) ==
    LET sizes == {ExoBasinSize(state, land, e) : e \in ExoCells(state, land)}
        mine  == ExoBasinSize(state, land, c)
    IN  IF (\A s \in sizes : s <= mine) /\ (\E t \in sizes : t < mine) THEN 1 ELSE 0

\* cost = sill + 0.02 * dist - 0.35 * priority in hundredths, for a valid
\* target (sill = 0) on the row of the source
TargetCost(state, land, src, c) ==
    2 * Abs(Col(c) - Col(src)) - 35 * exo_priority(state, land, c)

LowerTargetDrop == 24

\* _select_capture_target on one row: the first of the cheapest exorheic
\* cells in range that lie at least 0.01 below the source, or -1.
_select_capture_target(h, state, land, src, max_link) ==
    LET valid == {c \in ExoCells(state, land) :
                     /\ Abs(Col(c) - Col(src)) <= max_link
                     /\ h[c] <= h[src] - LowerTargetDrop}
    IN  IF valid = {} THEN -1
        ELSE CHOOSE t \in valid :
                 \A c \in valid :
                     \/ TargetCost(state, land, src, t) < TargetCost(state, land, src, c)
                     \/ /\ TargetCost(state, land, src, t) = TargetCost(state, land, src, c)
                        /\ t <= c

\* The candidate of the basin of sink sid, as <<required_cut, -basin_size,
\* path_flat>>, or <<>> when the basin gives none.
CaptureCandidate(h, state, land, sid, cfg) ==
    LET basin_pixels == {c \in Cells : land[c] /\ state.sink_id_flat[c] = sid}
        basin_size   == Cardinality(basin_pixels)
    IN  IF basin_size < 8 \/ basin_size > cfg.max_basin_pixels THEN <<>>
        ELSE Value({Value({IF tgt < 0 THEN <<>>
                           ELSE Value({IF Max(0, _estimate_capture_cut(h, path)) > cfg.max_sill
                                       THEN <<>>
                                       ELSE <<Max(0, _estimate_capture_cut(h, path)),
                                              -basin_size, path>> :
                                       path \in {_line_path_flat(src, tgt)}}) :
                           tgt \in {_select_capture_target(h, state, land, src,
                                                           cfg.max_link)}}) :
                    src \in {_pick_basin_sink(h, basin_pixels)}})

\* candidates, in the order of the groups (ascending sink id)
RECURSIVE CaptureCandidates(_, _, _, _, _)
CaptureCandidates(h, state, land, sid, cfg) ==
    IF sid >= Size THEN <<>>
    ELSE Value({IF cand = <<>> THEN CaptureCandidates(h, state, land, sid + 1, cfg)
                ELSE <<cand>> \o CaptureCandidates(h, state, land, sid + 1, cfg) :
                cand \in {CaptureCandidate(h, state, land, sid, cfg)}})

\* for _, _, path_flat in candidates[:k]: carve and mark
RECURSIVE CarveSelected(_, _, _, _)
CarveSelected(selected, k, st, cfg) ==
    IF k > Len(selected) THEN st
    ELSE Value({CarveSelected(selected, k + 1, next, cfg) :
                next \in {[h     |-> _carve_capture_path(st.h, selected[k][3], cfg.max_sill),
                           mask  |-> [c \in Cells |->
                                        st.mask[c] \/ \E i \in 1 .. Len(selected[k][3]) :
                                                         selected[k][3][i] = c],
                           paths |-> Append(st.paths, selected[k][3]),
                           wrote |-> Append(st.wrote,
                                        ~CarveSkipped(st.h, selected[k][3], cfg.max_sill))]}})

\* One iteration of the capture loop; the loop breaks when nothing changes.
CaptureIteration(st, land, cfg, rule) ==
    Value({Value({IF ExoCells(cur_state, land) = {} \/ candidates = <<>> THEN st
                  ELSE Value({CarveSelected(selected, 1, st, cfg) :
                              selected \in {SelectCandidates(candidates, cfg.fraction8)}}) :
                  candidates \in {CaptureCandidates(st.h, cur_state, land, 0, cfg)}}) :
           cur_state \in {_analyze_drainage_state(st.h, land, rule)}})

\* _integrate_drainage for capture_strength > 0: capture_iterations = 2
_integrate_drainage(h_hydro_pre, land, cfg, rule) ==
    Value({IF Len(st1.paths) = 0 THEN st1 ELSE CaptureIteration(st1, land, cfg, rule) :
           st1 \in {CaptureIteration([h |-> h_hydro_pre,
                                      mask |-> [c \in Cells |-> FALSE],
                                      paths |-> <<>>, wrote |-> <<>>],
                                     land, cfg, rule)}})

OceanLevel == -2400
SinkLevel == 24000

\* A row of 14 cells with the ocean at its right end: a basin of eight
\* cells that falls by 0.2 m per cell to its sink at cell 7 (10 m), then
\* five cells drawn around that level, among them a pit, a ridge, a target
\* exactly 0.01 below the sink and one a little less than 0.01 below.
CaptureRasters ==
    {[c \in CellsOf(CaptureShape) |->
         IF c <= 7 THEN SinkLevel + (7 - c) * 480
         ELSE IF c = 8 THEN v[1] ELSE IF c = 9 THEN v[2]
         ELSE IF c = 10 THEN v[3] ELSE IF c = 11 THEN v[4]
         ELSE IF c = 12 THEN v[5] ELSE OceanLevel] :
     v \in {25200, 28800} \X {0, 23520, 26400} \X {21600, 23760, 26400}
            \X {19200, 23976, 23990} \X {16800, 19200}}

\* max_sill = max(1, ...) m, max_link = max(16, ...) px and
\* max_basin_pixels = max(64, ...); capture_fraction in eighths.
CaptureConfigs ==
    [max_sill : {2400, 24000}, max_link : {16}, max_basin_pixels : {64},
     fraction8 : {1, 8}]

InitIntegrate ==
    /\ pc = "input"
    /\ shape = CaptureShape
    /\ tie_rule = "low_index_first"
    /\ inp \in [h_hydro_pre : CaptureRasters,
                land_mask   : {[c \in CellsOf(CaptureShape) |-> c < 13]},
                cfg         : CaptureConfigs]
    /\ out = [call |-> "none"]

CallIntegrateDrainage ==
    /\ pc = "input"
    /\ \E r \in {_integrate_drainage(inp.h_hydro_pre, inp.land_mask, inp.cfg,
                                      tie_rule)} :
          out' = [call |-> "_integrate_drainage"] @@ r
    /\ pc' = "integrated"
    /\ UNCHANGED <<shape, tie_rule, inp>>

SpecIntegrate == InitIntegrate /\ [][CallIntegrateDrainage]_vars

HasLowerNeighbour(h, c) == \E n \in Neighbours(c) : h[n] < h[c]

\* C24: after _integrate_drainage no cell of a carved capture path is a new
\* sink: every land cell with capture_paths_mask set that had a strictly
\* lower 8-neighbour before still has one in the result.  (The claim asks
\* the same of the cells that were sinks and are not the last cell of
\* their path; this is its part about the cells that were no sinks.)
C24_NoNewSinkOnCarvedPaths ==
    pc = "integrated" =>
        \A c \in Cells :
            (inp.land_mask[c] /\ out.mask[c] /\ HasLowerNeighbour(inp.h_hydro_pre, c))
                => HasLowerNeighbour(out.h, c)

\* The rest of the claim: a cell of a path that is not its last cell has a
\* strictly lower neighbour in the result.
InnerPathCellsDrain ==
    pc = "integrated" =>
        \A p \in 1 .. Len(out.paths) : \A i \in 1 .. Len(out.paths[p]) - 1 :
            HasLowerNeighbour(out.h, out.paths[p][i])

\* Two paths were written, one in each iteration, and they share a cell.
OverlappingPathsWritten ==
    /\ pc = "integrated"
    /\ Len(out.paths) = 2 /\ out.wrote[1] /\ out.wrote[2]
    /\ \E i \in 1 .. Len(out.paths[1]) : \E j \in 1 .. Len(out.paths[2]) :
          out.paths[1][i] = out.paths[2][j]

\* What does hold on the paths: the sink a written path starts from has a
\* strictly lower neighbour afterwards.
CapturedSinkDrains ==
    pc = "integrated" =>
        \A p \in 1 .. Len(out.paths) :
            out.wrote[p] => HasLowerNeighbour(out.h, out.paths[p][1])

----------------------------------------------------------------------------
(* The endorheic basins of _analyze_drainage_state, under SpecFlow.        *)

\* The sink cells: land cells that route nowhere.
SinkCells == {c \in Cells : inp.land_mask[c] /\ out.flow_dir[c] < 0}

\* basin_key_flat of a land cell
BasinKey(c) ==
    IF out.outlet_raw_flat[c] >= 0 THEN out.outlet_raw_flat[c]
    ELSE -(out.sink_id_flat[c] + 1)

\* C27: each 8-connected component of sink cells is one endorheic basin:
\* two sink cells that touch have the same sink id and the same basin key
\* (and with it the same basin id).
C27_SinkComponentOneBasin ==
    pc = "drainage" =>
        \A a \in SinkCells : \A b \in SinkCells \cap Neighbours(a) :
            /\ out.sink_id_flat[a] = out.sink_id_flat[b]
            /\ BasinKey(a) = BasinKey(b)

\* What the labelling loop does: every sink cell is the sink of a basin of
\* its own, and a cell that drains to a sink carries that cell's index.
EverySinkCellItsOwnBasin ==
    pc = "drainage" =>
        /\ \A c \in SinkCells : out.sink_id_flat[c] = c
        /\ \A c \in Cells :
              (inp.land_mask[c] /\ out.sink_id_flat[c] >= 0)
                  => out.sink_id_flat[c] \in SinkCells

----------------------------------------------------------------------------
(* _flow_connected_support: the river cells that reach a core cell along   *)
(* the routing, as extract_rivers calls it on the routing of one raster.   *)

\* order = np.argsort(flow_accum_raw.ravel())[::-1]
SupportOrderAscending(flow_accum_raw, rule) == Argsort(flow_accum_raw, rule)
SupportOrder(flow_accum_raw, rule) == Reversed(Argsort(flow_accum_raw, rule))

\* The loop "for src in order" of _flow_connected_support.
RECURSIVE SupportLoop(_, _, _, _, _)
SupportLoop(order, k, dest, support, connected) ==
    IF k > Len(order) THEN connected
    ELSE LET src == order[k]
             dst == dest[src]
         IN  Value({SupportLoop(order, k + 1, dest, support, n) :
                       n \in {IF connected[src] \/ ~support[src] THEN connected
                              ELSE IF dst >= 0 /\ connected[dst]
                              THEN [connected EXCEPT ![src] = TRUE]
                              ELSE connected}})

_flow_connected_support(core, support, fd, flow_accum_raw, rule) ==
    IF \A c \in Cells : ~support[c] THEN core
    ELSE SupportLoop(SupportOrder(flow_accum_raw, rule), 1,
                     _flow_dest_from_dir(fd), support, core)

\* The elevation range of the rasters whose rivers are extracted.
SupportMaxElev == 3

\* core and support of extract_rivers are both cut from the land cells by
\* thresholds on the same two fields, the thresholds of core being the
\* higher ones: core is within support, and support within the land.
InitSupport ==
    /\ pc = "input"
    /\ shape = SupportShape
    /\ tie_rule \in TieRules
    /\ inp \in {a \in [height    : [CellsOf(SupportShape) -> 0 .. SupportMaxElev],
                       land_mask : [CellsOf(SupportShape) -> BOOLEAN],
                       core      : [CellsOf(SupportShape) -> BOOLEAN],
                       support   : [CellsOf(SupportShape) -> BOOLEAN]] :
                  \A c \in CellsOf(SupportShape) :
                      /\ a.core[c] => a.support[c]
                      /\ a.support[c] => a.land_mask[c]}
    /\ out = [call |-> "none"]

\* run_hydrology: post_state = _analyze_drainage_state(h_hydro, land_mask)
CallRouteForRivers ==
    /\ pc = "input"
    /\ \E r \in {_analyze_drainage_state(inp.height, inp.land_mask, tie_rule)} :
           out' = [call |-> "_analyze_drainage_state",
                   flow_dir |-> r.flow_dir, flow_accum |-> r.flow_accum]
    /\ pc' = "routed"
    /\ UNCHANGED <<shape, tie_rule, inp>>

\* extract_rivers: connected = _flow_connected_support(core, support, ...)
CallFlowConnectedSupport ==
    /\ pc = "routed"
    /\ \E r \in {_flow_connected_support(inp.core, inp.support, out.flow_dir,
                                         out.flow_accum, tie_rule)} :
           out' = [call |-> "_flow_connected_support",
                   flow_dir |-> out.flow_dir, flow_accum |-> out.flow_accum,
                   connected |-> r]
    /\ pc' = "connected"
    /\ UNCHANGED <<shape, tie_rule, inp>>

NextSupport == CallRouteForRivers \/ CallFlowConnectedSupport

SpecSupport == InitSupport /\ [][NextSupport]_vars

\* Whether a cell's D8 destination is marked.
DestConnected(c) == Dest(c) >= 0 /\ out.connected[Dest(c)]

\* C28: the result is the flow-connected closure: a cell is marked iff it
\* is a core cell, or a support cell whose D8 destination is marked; the
\* one pass leaves no support cell with a marked destination unmarked.
C28_FlowConnectedClosure ==
    pc = "connected" =>
        \A c \in Cells :
            out.connected[c] <=> (inp.core[c] \/ (inp.support[c] /\ DestConnected(c)))

\* A support cell was marked through another support cell that the pass had
\* to mark first, and a support cell that does not reach the core is left out.
C28_Witness ==
    /\ pc = "connected"
    /\ \E c \in Cells :
          /\ out.connected[c] /\ ~inp.core[c]
          /\ ~inp.core[Dest(c)]
          /\ out.flow_accum[Dest(c)] > out.flow_accum[c]
    /\ \E c \in Cells : inp.support[c] /\ ~out.connected[c]

----------------------------------------------------------------------------
(* _priority_flood_fill.  Heights are in units of epsilon_m / 100.         *)

\* eps = max(float(epsilon_m), 0.0)
FloodEps == 100
\* epsilon_micro = max(0.0, min(eps * 0.48, 0.02))
EpsilonMicro == 48
\* min_drop = max(eps - 2.0 * epsilon_micro, 1e-6)
FloodMinDrop == 4

\* _coast_mask: the land cells that touch an ocean cell.
_coast_mask(land) == [c \in Cells |-> land[c] /\ \E n \in Neighbours(c) : ~land[n]]

\* edge: the first and last row and column.
EdgeCell(c) ==
    \/ Row(c) = 0 \/ Row(c) = GridH - 1
    \/ Col(c) = 0 \/ Col(c) = GridW - 1

\* seed_idx: the land cells on the coast or the edge; when there is none,
\* the first land cell of least height.
FloodSeeds(h, land) ==
    LET seeds == {c \in Cells : land[c] /\ (_coast_mask(land)[c] \/ EdgeCell(c))}
        lands == {c \in Cells : land[c]}
    IN  IF seeds # {} THEN seeds
        ELSE {CHOOSE c \in lands :
                 \A d \in lands : h[c] < h[d] \/ (h[c] = h[d] /\ c <= d)}

\* heapq.heappop: the least (height, flat index) pair.
HeapMin(heap) ==
    CHOOSE e \in heap :
        \A f \in heap : e[1] < f[1] \/ (e[1] = f[1] /\ e[2] <= f[2])

\* The loop "while heap";
\* st = [heap, visited, parent_flat, filled, pop_order].
RECURSIVE FloodLoop(_, _)
FloodLoop(land, st) ==
    IF st.heap = {} THEN st
    ELSE Value({FloodLoop(land, n) : n \in
           {Value({[heap        |-> (st.heap \ {cur}) \cup
                                       {<<IF st.filled[c] <= cur[1]
                                          THEN cur[1] + FloodEps
                                          ELSE st.filled[c], c>> : c \in new},
                    visited     |-> st.visited \cup new,
                    parent_flat |-> [c \in Cells |->
                                       IF c \in new THEN cur[2]
                                       ELSE st.parent_flat[c]],
                    filled      |-> [c \in Cells |->
                                       IF c \in new /\ st.filled[c] <= cur[1]
                                       THEN cur[1] + FloodEps
                                       ELSE st.filled[c]],
                    pop_order   |-> Append(st.pop_order, cur[2])] :
                   new \in {{c \in Neighbours(cur[2]) :
                               c \notin st.visited /\ land[c]}}}) :
            cur \in {HeapMin(st.heap)}}})

\* The shallow-saddle breach: a land cell raised by at most
\* breach_max_saddle_m is relaxed to original + delta * ratio, and to no
\* less than original + eps.
Breach(original, filled, land, breach_enabled, max_saddle) ==
    IF ~(breach_enabled /\ max_saddle > 0) THEN filled
    ELSE [c \in Cells |->
            LET delta == Max(filled[c] - original[c], 0)
            IN  IF land[c] /\ delta > 0 /\ delta <= max_saddle
                THEN Max(original[c] + (delta * delta) \div max_saddle,
                         original[c] + FloodEps)
                ELSE filled[c]]

\* The loop "for flat in pop_order" that lifts a raised cell to its flood
\* parent's height plus min_drop.
RECURSIVE RepairLoop(_, _, _, _, _)
RepairLoop(pop_order, k, raised, parent_flat, filled) ==
    IF k > Len(pop_order) THEN filled
    ELSE LET idx      == pop_order[k]
             parent   == parent_flat[idx]
         IN  Value({RepairLoop(pop_order, k + 1, raised, parent_flat, n) :
                       n \in {IF ~raised[idx] \/ parent < 0 THEN filled
                              ELSE IF filled[idx] < filled[parent] + FloodMinDrop
                              THEN [filled EXCEPT
                                      ![idx] = filled[parent] + FloodMinDrop]
                              ELSE filled}})

\* The flood from the seeds: filled, parent_flat and pop_order when the
\* heap is empty.
Flood(height, land) ==
    Value({FloodLoop(land, [heap        |-> {<<height[c], c>> : c \in seeds},
                            visited     |-> seeds,
                            parent_flat |-> [c \in Cells |-> -1],
                            filled      |-> height,
                            pop_order   |-> << >>]) :
           seeds \in {FloodSeeds(height, land)}})

\* raised_mask = land_mask & (filled > original + 1e-9)
RaisedMask(original, filled, land) ==
    [c \in Cells |-> land[c] /\ filled[c] > original[c]]

\* The micro-perturbation of the raised cells and the repair loop;
\* noise[c] is noise_hf[c] * epsilon_micro.
Perturb(filled, raised, flood, noise) ==
    IF \A c \in Cells : ~raised[c] THEN filled
    ELSE RepairLoop(flood.pop_order, 1, raised, flood.parent_flat,
                    [c \in Cells |->
                        IF raised[c] THEN filled[c] + noise[c] ELSE filled[c]])

_priority_flood_fill(height, land, breach_enabled, max_saddle, noise) ==
    IF \A c \in Cells : ~land[c]
    THEN [filled |-> height, parent_flat |-> [c \in Cells |-> -1],
          raised_mask |-> [c \in Cells |-> FALSE]]
    ELSE Value({Value({Value({Value({
           [filled      |-> [c \in Cells |->
                               IF land[c] THEN Max(repaired[c], height[c])
                               ELSE repaired[c]],
            parent_flat |-> flood.parent_flat,
            raised_mask |-> raised] :
           repaired \in {Perturb(breached, raised, flood, noise)}}) :
           raised \in {RaisedMask(height, breached, land)}}) :
           breached \in {Breach(height, flood.filled, land, breach_enabled,
                                max_saddle)}}) :
           flood \in {Flood(height, land)}})

\* The rasters that are filled: all land or with an ocean corner, a rim of
\* edge cells around the two inner cells.
FloodRimHeights == {100, 300}
FloodInnerHeights == {0, 120, 220, 320}
FloodNoise == {-40, 0, 40}
FloodSaddles == {0, 400}
FloodInner == {5, 6}
FloodFreeRim == {0, 1, 3, 4, 11}

InitFlood ==
    /\ pc = "input"
    /\ shape = FloodShape
    /\ tie_rule = "low_index_first"
    /\ inp \in {[height |-> [c \in CellsOf(FloodShape) |->
                                IF c \in FloodInner THEN inner[c]
                                ELSE IF c \in FloodFreeRim THEN rim[c]
                                ELSE 300],
                 land_mask |-> [c \in CellsOf(FloodShape) |-> c # o],
                 breach_max_saddle |-> s,
                 noise |-> [c \in CellsOf(FloodShape) |->
                               IF c \in FloodInner THEN nz[c] ELSE 0]] :
                   inner \in [FloodInner -> FloodInnerHeights],
                   rim \in [FloodFreeRim -> FloodRimHeights],
                   nz \in [FloodInner -> FloodNoise],
                   o \in {-1, 0}, s \in FloodSaddles}
    /\ out = [call |-> "none"]

\* run_hydrology: h_routing_filled = _priority_flood_fill(h_routing_base, ...)
CallPriorityFloodFill ==
    /\ pc = "input"
    /\ \E r \in {_priority_flood_fill(inp.height, inp.land_mask, TRUE,
                                      inp.breach_max_saddle, inp.noise)} :
           out' = [call |-> "_priority_flood_fill", filled |-> r.filled,
                   parent_flat |-> r.parent_flat, raised_mask |-> r.raised_mask]
    /\ pc' = "filled"
    /\ UNCHANGED <<shape, tie_rule, inp>>

\* The D8 routing of the filled raster, as _analyze_drainage_state
\* computes it with compute_flow_d8.
CallRouteFilled ==
    /\ pc = "filled"
    /\ \E r \in {compute_flow_d8(out.filled,
                                  [c \in Cells |-> ~inp.land_mask[c]], tie_rule)} :
           out' = [call |-> "compute_flow_d8", filled |-> out.filled,
                   parent_flat |-> out.parent_flat,
                   raised_mask |-> out.raised_mask, flow_dir |-> r.flow_dir]
    /\ pc' = "routed"
    /\ UNCHANGED <<shape, tie_rule, inp>>

NextFlood == CallPriorityFloodFill \/ CallRouteFilled

SpecFlood == InitFlood /\ [][NextFlood]_vars

\* The land cells that have a flood parent.
FloodChildren == {c \in Cells : inp.land_mask[c] /\ out.parent_flat[c] >= 0}

AboveParent(c) == out.filled[c] > out.filled[out.parent_flat[c]]

\* C29: after the fill every land cell with a flood parent is strictly
\* higher than that parent, raised or not, and so no land cell other than
\* a flood seed is a sink of the routing.
C29_StrictDropToFloodParent ==
    /\ pc \in {"filled", "routed"} => \A c \in FloodChildren : AboveParent(c)
    /\ pc = "routed" => \A c \in FloodChildren : out.flow_dir[c] >= 0

\* The raised cells are strictly higher than their flood parents: the
\* repair loop covers them.
RaisedAboveParent ==
    pc \in {"filled", "routed"} =>
        \A c \in FloodChildren : out.raised_mask[c] => AboveParent(c)

\* A cell that was not raised has a raised flood parent that the
\* perturbation lifted to its height or above, and is a sink of the routing.
UnraisedChildBecomesSink ==
    /\ pc = "routed"
    /\ \E c \in FloodChildren :
          /\ ~out.raised_mask[c]
          /\ out.raised_mask[out.parent_flat[c]]
          /\ ~AboveParent(c)
          /\ out.flow_dir[c] < 0

----------------------------------------------------------------------------
(* tectonics: the boundary mask and the seeds of the triple-junction field *)

\* tectonics._shift_int(field, dy, dx, fill) for direction idx at cell c:
\* out[y, x] = field[y - dy, x - dx], fill outside the raster.
_shift_int(field, idx, fill, c) ==
    IF InGrid(Row(c) - DirDy(idx), Col(c) - DirDx(idx))
    THEN field[(Row(c) - DirDy(idx)) * GridW + (Col(c) - DirDx(idx))]
    ELSE fill

\* boundary_mask = boundary_type != 0 after _classify_boundaries: a cell is
\* given a boundary class by the first direction in which its in-grid
\* neighbour at (y + dy, x + dx) lies on another plate.
BoundaryMask(plate_ids) ==
    [c \in Cells |->
        \E idx \in DirIndices :
            /\ InGrid(Row(c) + DirDy(idx), Col(c) + DirDx(idx))
            /\ plate_ids[(Row(c) + DirDy(idx)) * GridW + (Col(c) + DirDx(idx))]
                   # plate_ids[c]]

\* The fill value of the shifted plate ids.
ShiftFill == -1

\* values[:, y, x]: the cell's plate id and the eight shifted ones.
StackedValues(plate_ids, c) ==
    <<plate_ids[c]>> \o [i \in 1 .. 8 |-> _shift_int(plate_ids, i - 1, ShiftFill, c)]

\* unique_count = 1 + np.sum(sorted_vals[1:] != sorted_vals[:-1], axis=0)
UniqueCount(values) ==
    Value({1 + Cardinality({i \in 1 .. Len(sorted) - 1 : sorted[i + 1] # sorted[i]}) :
           sorted \in {SortSeq(values, LAMBDA a, b : a < b)}})

\* triple = boundary_mask & (unique_count >= 3), the seeds that box_blur
\* spreads into the triple-junction field.
TripleSeeds(plate_ids, boundary_mask) ==
    [c \in Cells |->
        boundary_mask[c] /\ UniqueCount(StackedValues(plate_ids, c)) >= 3]

\* The number of plates.
MaxPlates == 3

InitPlates ==
    /\ pc = "input"
    /\ shape = PlateShape
    /\ tie_rule = "low_index_first"
    /\ inp \in [plate_ids : [CellsOf(PlateShape) -> 0 .. MaxPlates - 1]]
    /\ out = [call |-> "none"]

CallClassifyBoundaries ==
    /\ pc = "input"
    /\ out' = [call |-> "_classify_boundaries",
               boundary_mask |-> BoundaryMask(inp.plate_ids)]
    /\ pc' = "classified"
    /\ UNCHANGED <<shape, tie_rule, inp>>

CallTripleJunctionField ==
    /\ pc = "classified"
    /\ out' = [call |-> "_triple_junction_field",
               boundary_mask |-> out.boundary_mask,
               triple |-> TripleSeeds(inp.plate_ids, out.boundary_mask)]
    /\ pc' = "triple"
    /\ UNCHANGED <<shape, tie_rule, inp>>

NextPlates == CallClassifyBoundaries \/ CallTripleJunctionField

SpecPlates == InitPlates /\ [][NextPlates]_vars

\* The plate ids in the 3 x 3 neighbourhood of a cell, within the raster.
NeighbourhoodPlates(c) == {inp.plate_ids[n] : n \in Neighbours(c) \cup {c}}

\* C30: the seeds of the triple-junction field are exactly the boundary
\* cells whose 3 x 3 neighbourhood holds at least 3 distinct plate ids; a
\* boundary cell on the grid edge with 2 plate ids around it is no seed.
C30_TripleSeedsHaveThreePlates ==
    pc = "triple" =>
        \A c \in Cells :
            out.triple[c] <=>
                (out.boundary_mask[c] /\ Cardinality(NeighbourhoodPlates(c)) >= 3)

\* What the code computes: the fill value of the shifted rasters counts as
\* one more id on every cell of the grid edge.
SeedsCountTheFillValue ==
    pc = "triple" =>
        \A c \in Cells :
            out.triple[c] <=>
                /\ out.boundary_mask[c]
                /\ Cardinality(NeighbourhoodPlates(c))
                       + (IF EdgeCell(c) THEN 1 ELSE 0) >= 3

\* A boundary cell on the grid edge between two plates is a seed.
EdgeCellOfTwoPlatesSeeds ==
    /\ pc = "triple"
    /\ \E c \in Cells :
          /\ EdgeCell(c) /\ out.boundary_mask[c]
          /\ Cardinality(NeighbourhoodPlates(c)) = 2
          /\ out.triple[c]

====
